---- MODULE Spec2Model ----
(***************************************************************************)
(* Model of site-scraper: the one-shot crawler (SiteCrawler.crawl,         *)
(* src/crawler.ts), the project run state machine (runProject and the      *)
(* project store of src/project-manager.ts, reached through the HTTP API   *)
(* of src/server.ts), loadProjects at startup, the asset downloads of      *)
(* src/utils/assets.ts and aggregateTechnologies.                          *)
(*                                                                         *)
(* A URL string is a record [kind, host, path, search, hash]:              *)
(*   kind "abs"   an absolute http(s) URL string                           *)
(*   kind "root"  a root-relative reference ("/a")                         *)
(*   kind "frag"  a fragment-only reference ("#top")                       *)
(*   kind "other" any other string (no scheme, "mailto:", "about.html")    *)
(*   kind "norm"  a string produced by normalizeUrl                        *)
(* path is the pathname split at "/": "/" is <<"">>, "/a" is <<"a">>,      *)
(* "/a/" is <<"a", "">>; an absolute URL string without a path             *)
(* ("https://x") has path << >>.                                           *)
(***************************************************************************)
EXTENDS Integers, Sequences, FiniteSets, TLC

VARIABLES
    mode,           \* the part of the program that runs: "scrape" (cli.ts, one-shot
                    \* crawl), "ui" (the server), "load" (loadProjects at startup),
                    \* "assets" (a downloadAssets call), "tech" (aggregateTechnologies),
                    \* "normalize" (normalizeUrl), "sanitize" (sanitizeFilename),
                    \* "cli" (parseArgs), "clone" (cloneSite),
                    \* "detect" (detectTechnologies)
    config,         \* SiteCrawler.config: [baseUrl, maxPages, delay, downloadAssets]
    cpc,            \* position of SiteCrawler.crawl
    visitedUrls,    \* SiteCrawler.visitedUrls
    urlsToVisit,    \* SiteCrawler.urlsToVisit
    pages,          \* SiteCrawler.pages
    curUrl,         \* the url argument of the crawlPage call in progress
    crawlReport,    \* the report.json written by SiteCrawler.saveReport
    pipeline,       \* what the last iteration of SiteCrawler.crawl's loop has completed
                    \* of the screenshot, the download of the page's assets, the
                    \* push of its PageData and the delay, in order
    projectsStore,  \* project-manager projectsStore: the Project stored for the id
    diskProjects,   \* contents of projects.json for the project
    reportJson,     \* the report.json of the project: the invocation that wrote it, 0 = none
    runs,           \* the runProject invocations: local variables and position
    nruns,          \* number of runProject invocations so far
    edits,          \* number of createProject, updateProject and deleteProject calls so far
    lastEvent,      \* the last call of the progress callback
    startupFile,    \* contents of projects.json when the process starts
    lpc,            \* position of loadProjects
    assetUrls,      \* downloadAssets: the urls argument
    options,        \* downloadAssets: the options argument
    apc,            \* position of downloadAssets
    batchStart,     \* downloadAssets: the loop variable i
    downloads,      \* the downloadAsset call made for each element of urls
    results,        \* downloadAssets: results
    completed,      \* downloadAssets: completed
    progressCalls,  \* the calls of options.onProgress, in order
    destDir,        \* the files of the destination directory
    techPages,      \* aggregateTechnologies: the pages argument
    technologies,   \* aggregateTechnologies: the returned list
    normArg,        \* normalizeUrl: a URL string and the same string followed by "/"
    normResult,     \* normalizeUrl: the strings returned for them, call after call
    sanArg,         \* sanitizeFilename: the filename argument
    sanResult,      \* sanitizeFilename: the string returned
    cliArgs,        \* cli.ts: process.argv.slice(2)
    cliResult,      \* cli.ts: what parseArgs returned, or the exit code it exited with
    cloneConfig,    \* SiteCloner.config
    kpc,            \* position of SiteCloner.clone
    clonedAssets,   \* SiteCloner.assets
    cloneResult,    \* the CloneResult that cloneSite resolves with
    patterns,       \* detectTechnologies: tech.patterns of one entry of TECH_PATTERNS,
                    \* each with what the page holds for it
    dpc,            \* position of detectTechnologies in the entry
    patternIndex,   \* detectTechnologies: the number of patterns evaluated
    isDetected,     \* detectTechnologies: isDetected
    detConfidence,  \* detectTechnologies: confidence
    detected        \* detectTechnologies: detected

vars == <<mode, config, cpc, visitedUrls, urlsToVisit, pages, curUrl, crawlReport,
          pipeline,
          projectsStore, diskProjects, reportJson, runs, nruns, edits, lastEvent,
          startupFile, lpc,
          assetUrls, options, apc, batchStart, downloads, results, completed,
          progressCalls, destDir,
          techPages, technologies,
          normArg, normResult, sanArg, sanResult, cliArgs, cliResult,
          cloneConfig, kpc, clonedAssets, cloneResult,
          patterns, dpc, patternIndex, isDetected, detConfidence, detected>>

crawlVars == <<config, cpc, visitedUrls, urlsToVisit, pages, curUrl, crawlReport,
               pipeline>>
uiVars == <<projectsStore, diskProjects, reportJson, runs, nruns, edits, lastEvent>>
loadVars == <<startupFile, lpc>>
assetVars == <<assetUrls, options, apc, batchStart, downloads, results, completed,
               progressCalls, destDir>>
techVars == <<techPages, technologies>>
normVars == <<normArg, normResult>>
sanVars == <<sanArg, sanResult>>
cliVars == <<cliArgs, cliResult>>
cloneVars == <<cloneConfig, kpc, clonedAssets, cloneResult>>
detectVars == <<patterns, dpc, patternIndex, isDetected, detConfidence, detected>>
moreVars == <<detectVars>>
utilVars == <<normVars, sanVars, cliVars, cloneVars, moreVars>>

----------------------------------------------------------------------------
(* Bounds of the model *)

MaxRuns == 2        \* runProject invocations explored
MaxEdits == 1       \* updateProject and deleteProject calls explored
MaxRecords == 8     \* cap on the length of a page list
LiveRuns == 1       \* runProject invocations explored under fairness
MaxFetched == 3     \* cap on the recorded list of the URLs a download has requested

\* the value of a variable of a part of the program that does not run, and of
\* a local variable of runProject outside its scope
Absent == << >>

----------------------------------------------------------------------------
(* URL strings *)

Abs(h, p, s, f) == [kind |-> "abs", host |-> h, path |-> p, search |-> s, hash |-> f]
Root(p, f) == [kind |-> "root", host |-> "", path |-> p, search |-> "", hash |-> f]
Frag(f) == [kind |-> "frag", host |-> "", path |-> << >>, search |-> "", hash |-> f]
Other(t) == [kind |-> "other", host |-> t, path |-> << >>, search |-> "", hash |-> ""]
\* "//h/p", "./p" and "../p"
NetPath(h, p) == [kind |-> "netpath", host |-> h, path |-> p, search |-> "", hash |-> ""]
Dot(p) == [kind |-> "dot", host |-> "", path |-> p, search |-> "", hash |-> ""]
DotDot(p) == [kind |-> "dotdot", host |-> "", path |-> p, search |-> "", hash |-> ""]

Invalid == [kind |-> "invalid", host |-> "", path |-> << >>, search |-> "", hash |-> ""]

\* new URL(url): the parsed URL, or Invalid where the constructor throws
ParseURL(url) ==
    IF url.kind \in {"abs", "norm"}
    THEN [kind |-> "abs", host |-> url.host,
          path |-> IF url.path = << >> THEN <<"">> ELSE url.path,
          search |-> url.search, hash |-> url.hash]
    ELSE Invalid

\* new URL(href, baseUrl).href for a root-relative href
ResolveRoot(href, baseUrl) ==
    LET b == ParseURL(baseUrl)
    IN Abs(b.host, href.path, href.search, href.hash)

Front(s) == SubSeq(s, 1, Len(s) - 1)

\* new URL(href, baseUrl).href for an href that starts with "/", "./" or "../"
Resolve(href, baseUrl) ==
    LET b == ParseURL(baseUrl)
        dir == Front(b.path)
    IN CASE href.kind = "netpath" -> Abs(href.host, href.path, href.search, href.hash)
         [] href.kind = "dot" -> Abs(b.host, dir \o href.path, href.search, href.hash)
         [] href.kind = "dotdot" ->
              Abs(b.host, (IF dir = << >> THEN dir ELSE Front(dir)) \o href.path,
                  href.search, href.hash)
         [] OTHER -> ResolveRoot(href, baseUrl)

\* SiteCrawler.normalizeUrl
normalizeUrl(url) ==
    LET parsed == ParseURL(url)
        endsWithSlash == parsed.path[Len(parsed.path)] = ""
        isRoot == parsed.path = <<"">>
    IN IF parsed = Invalid
       THEN url
       ELSE [kind |-> "norm", host |-> parsed.host,
             path |-> IF endsWithSlash /\ ~isRoot THEN Front(parsed.path) ELSE parsed.path,
             search |-> parsed.search, hash |-> ""]

\* project-manager normalizeUrl
PM_normalizeUrl(url) ==
    LET parsed == ParseURL(url)
        endsWithSlash == parsed.path[Len(parsed.path)] = ""
        isRoot == parsed.path = <<"">>
    IN IF parsed = Invalid
       THEN url
       ELSE [kind |-> "norm", host |-> parsed.host,
             path |-> IF endsWithSlash /\ ~isRoot THEN Front(parsed.path) ELSE parsed.path,
             search |-> parsed.search, hash |-> ""]

skipExtensions == {"pdf", "zip", "jpg", "jpeg", "png", "gif", "svg", "css", "js",
                   "mp4", "webm", "mp3"}

\* the extension of a path segment, lower-cased, "" where it has none
SegExt(seg) ==
    CASE seg \in {"i.png", "I.PNG"} -> "png"
      [] seg = "s.css" -> "css"
      [] OTHER -> ""

\* pathname.toLowerCase().endsWith(ext) for some ext of the skip list
HasSkippedExtension(parsed) ==
    SegExt(parsed.path[Len(parsed.path)]) \in skipExtensions

\* shouldCrawl without the test of the extension
shouldCrawl_AnyExtension(url, visited) ==
    LET base == ParseURL(config.baseUrl)
        parsed == ParseURL(url)
    IN IF base = Invalid \/ parsed = Invalid THEN FALSE
       ELSE IF parsed.host # base.host THEN FALSE
       ELSE IF normalizeUrl(url) \in visited THEN FALSE
       ELSE TRUE

\* SiteCrawler.shouldCrawl
shouldCrawl(url, visited) ==
    LET base == ParseURL(config.baseUrl)
        parsed == ParseURL(url)
    IN IF base = Invalid \/ parsed = Invalid THEN FALSE
       ELSE IF parsed.host # base.host THEN FALSE
       ELSE IF HasSkippedExtension(parsed) THEN FALSE
       ELSE IF normalizeUrl(url) \in visited THEN FALSE
       ELSE TRUE

\* project-manager shouldCrawl
PM_shouldCrawl(url, baseUrl, visited) ==
    LET base == ParseURL(baseUrl)
        parsed == ParseURL(url)
    IN IF base = Invalid \/ parsed = Invalid THEN FALSE
       ELSE IF parsed.host # base.host THEN FALSE
       ELSE IF HasSkippedExtension(parsed) THEN FALSE
       ELSE IF PM_normalizeUrl(url) \in visited THEN FALSE
       ELSE TRUE

----------------------------------------------------------------------------
(* The site served to the render surface *)

X_root == Abs("x", <<"">>, "", "")
X_bare == Abs("x", << >>, "", "")
X_b == Abs("x", <<"b">>, "", "")
X_c == Abs("x", <<"c">>, "", "")
Y_root == Abs("y", <<"">>, "", "")

\* the a[href] attribute values of the document loaded for a URL
Anchors(url) ==
    LET p == ParseURL(url)
    IN CASE p.host = "x" /\ p.path = <<"">> ->
              << Root(<<"a">>, ""), Abs("x", <<"a", "">>, "", ""), Root(<<"b">>, "t"),
                 Abs("y", <<"">>, "", ""), Root(<<"i.png">>, ""), Frag("top") >>
         [] p.host = "x" /\ p.path \in {<<"a">>, <<"a", "">>} ->
              << Root(<<"">>, ""), Root(<<"a">>, ""), Root(<<"b">>, ""), Other("mailto") >>
         [] p.host = "x" /\ p.path = <<"b">> ->
              << Root(<<"c">>, ""), Abs("x", <<"c", "">>, "", ""), Y_root,
                 Root(<<"i.png">>, ""), Root(<<"I.PNG">>, "") >>
         [] p.host = "x" /\ p.path \in {<<"c">>, <<"c", "">>} ->
              << Root(<<"b">>, "t"), Root(<<"c">>, ""), NetPath("y", <<"">>),
                 Dot(<<"c">>), DotDot(<<"c">>) >>
         [] p.host = "y" /\ p.path = <<"">> ->
              << X_b, Root(<<"">>, "t") >>
         [] OTHER -> << >>

\* the img[src] attribute values of the document loaded for a URL
Images(url) ==
    LET p == ParseURL(url)
    IN CASE p.host = "x" /\ p.path = <<"b">> -> << Root(<<"i.png">>, "") >>
         [] OTHER -> << >>

\* response.status() of the navigation; 0 where no response object is available
ResponseStatus(url) ==
    LET p == ParseURL(url)
    IN CASE p.host = "x" /\ p.path = <<"c">> -> 404
         [] p.host = "y" -> 0
         [] OTHER -> 200

\* response?.status() || 200
StatusCode(url) == IF ResponseStatus(url) = 0 THEN 200 ELSE ResponseStatus(url)

\* extractLinks: one LinkInfo per anchor
LinkInfo(a, baseUrl) ==
    CASE a.kind \in {"root", "netpath", "dot", "dotdot"} ->
           [href |-> Resolve(a, baseUrl), isInternal |-> TRUE]
      [] a.kind = "frag" -> [href |-> a, isInternal |-> TRUE]
      [] a.kind = "abs" ->
           [href |-> a, isInternal |-> ParseURL(a).host = ParseURL(baseUrl).host]
      [] OTHER -> [href |-> a, isInternal |-> FALSE]

extractLinks(url, baseUrl) ==
    [i \in 1..Len(Anchors(url)) |-> LinkInfo(Anchors(url)[i], baseUrl)]

\* extractPageData: the PageData of a loaded page
extractPageData(url, baseUrl, screenshotPath, statusCode) ==
    [url |-> url, title |-> "T", links |-> extractLinks(url, baseUrl),
     screenshotPath |-> screenshotPath, statusCode |-> statusCode]

\* the degraded PageData of SiteCrawler.crawlPage's catch block
DegradedPage(url) ==
    [url |-> url, title |-> "", links |-> << >>, screenshotPath |-> FALSE,
     statusCode |-> 0]

RECURSIVE PushNew_Front(_, _)
\* the loop with unshift in place of push
PushNew_Front(queue, hrefs) ==
    IF hrefs = << >> THEN queue
    ELSE PushNew_Front(IF \E i \in 1..Len(queue) : queue[i] = Head(hrefs)
                       THEN queue ELSE <<Head(hrefs)>> \o queue,
                       Tail(hrefs))

\* the loop "for (const link of internalLinks) if (!includes(link)) push(link)"
RECURSIVE PushNew(_, _)
PushNew(queue, hrefs) ==
    IF hrefs = << >> THEN queue
    ELSE PushNew(IF \E i \in 1..Len(queue) : queue[i] = Head(hrefs)
                 THEN queue ELSE Append(queue, Head(hrefs)),
                 Tail(hrefs))

Hrefs(links) == [i \in 1..Len(links) |-> links[i].href]

\* no report
NoReport == [totalPages |-> -1, pages |-> << >>]

PageUrls(ps) == [i \in 1..Len(ps) |-> ps[i].url]

----------------------------------------------------------------------------
(* SiteCrawler (src/crawler.ts), the run of `site-scraper <url>` *)

CrawlSeeds == {X_root, X_bare, X_b}

\* the values of config.delay: none, and the default
Delays == {0, 1000}

\* what a throw leaves completed of the steps
Prefixes(steps) == { SubSeq(steps, 1, k) : k \in 0..Len(steps) }

\* what a throw in one of the steps leaves completed
StrictPrefixes(steps) == { SubSeq(steps, 1, k) : k \in 0..(Len(steps) - 1) }

\* "if (urlsToVisit.length > 0 && delay > 0) await setTimeout(delay)" at the end
\* of an iteration that has completed the awaits done
Delayed(done, queue, delay) ==
    IF queue # << >> /\ delay > 0 THEN Append(done, "delay") ELSE done
MaxPagesChoices == {0, 1, 2}

\* the while condition with "<=" in place of "<"
CrawlLoopCondition_OffByOne ==
    /\ urlsToVisit # << >>
    /\ (config.maxPages = 0 \/ Len(pages) <= config.maxPages)

\* the while condition of SiteCrawler.crawl
CrawlLoopCondition ==
    /\ urlsToVisit # << >>
    /\ (config.maxPages = 0 \/ Len(pages) < config.maxPages)

\* crawl() up to the page loop: initBrowser, newContext, newPage, push(baseUrl)
CrawlStart ==
    /\ mode = "scrape" /\ cpc = "start"
    /\ \/ /\ urlsToVisit' = Append(urlsToVisit, config.baseUrl)
          /\ cpc' = "loop"
       \/ /\ cpc' = "rejected"          \* chromium.launch or newContext throws
          /\ UNCHANGED urlsToVisit
    /\ UNCHANGED <<mode, config, visitedUrls, pages, curUrl, crawlReport, pipeline>>
    /\ UNCHANGED <<uiVars, loadVars, assetVars, techVars, utilVars>>

\* the loop head reading urlsToVisit[0] without removing it
CrawlLoop_NoShift ==
    /\ mode = "scrape" /\ cpc = "loop"
    /\ IF CrawlLoopCondition
       THEN LET url == Head(urlsToVisit)
                normalizedUrl == normalizeUrl(url)
            IN /\ UNCHANGED urlsToVisit
               /\ IF normalizedUrl \in visitedUrls
                  THEN /\ pipeline' = Delayed(<< >>, urlsToVisit, config.delay)
                       /\ UNCHANGED <<visitedUrls, curUrl, cpc>>
                  ELSE /\ visitedUrls' = visitedUrls \cup {normalizedUrl}
                       /\ curUrl' = url
                       /\ cpc' = "page"
                       /\ UNCHANGED pipeline
       ELSE /\ cpc' = "closing"
            /\ UNCHANGED <<urlsToVisit, visitedUrls, curUrl, pipeline>>
    /\ UNCHANGED <<mode, config, pages, crawlReport>>
    /\ UNCHANGED <<uiVars, loadVars, assetVars, techVars, utilVars>>

\* one evaluation of the while condition; shift; the synchronous head of crawlPage
CrawlLoop ==
    /\ mode = "scrape" /\ cpc = "loop"
    /\ IF CrawlLoopCondition
       THEN LET url == Head(urlsToVisit)
                normalizedUrl == normalizeUrl(url)
            IN /\ urlsToVisit' = Tail(urlsToVisit)
               /\ IF normalizedUrl \in visitedUrls
                  THEN \* crawlPage returns null, nothing is pushed; the delay
                       /\ pipeline' = Delayed(<< >>, urlsToVisit', config.delay)
                       /\ UNCHANGED <<visitedUrls, curUrl, cpc>>
                  ELSE /\ visitedUrls' = visitedUrls \cup {normalizedUrl}
                       /\ curUrl' = url
                       /\ cpc' = "page"
                       /\ UNCHANGED pipeline
       ELSE /\ cpc' = "closing"
            /\ UNCHANGED <<urlsToVisit, visitedUrls, curUrl, pipeline>>
    /\ UNCHANGED <<mode, config, pages, crawlReport>>
    /\ UNCHANGED <<uiVars, loadVars, assetVars, techVars, utilVars>>

\* crawlPage without the loop that queues the links of the page
CrawlEnqueue_NoLinks(queue, pageData) == queue

\* the links queued by crawlPage for a PageData
CrawlEnqueue(queue, pageData) ==
    PushNew(queue,
            Hrefs(SelectSeq(pageData.links,
                            LAMBDA link : link.isInternal
                                          /\ shouldCrawl(link.href, visitedUrls))))

\* crawlPage's try block: "await this.takeScreenshot(page, url)" where it
\* returns a path, then "await this.downloadPageAssets(pageData, url)" where
\* assets are downloaded
CrawlPipeline(screenshotPath, download) ==
    (IF screenshotPath THEN <<"screenshot">> ELSE << >>)
        \o (IF download THEN <<"download">> ELSE << >>)

\* the try block of crawlPage, the push of its result in crawl() and the delay
CrawlPage ==
    /\ mode = "scrape" /\ cpc = "page"
    /\ Len(pages) < MaxRecords
    /\ \E screenshotPath \in BOOLEAN :          \* takeScreenshot catches its own errors
         LET download == config.downloadAssets /\ Images(curUrl) # << >>
             awaits == CrawlPipeline(screenshotPath, download)
             pageData == extractPageData(curUrl, config.baseUrl, screenshotPath,
                                         StatusCode(curUrl))
         IN \/ /\ urlsToVisit' = CrawlEnqueue(urlsToVisit, pageData)
               /\ pages' = Append(pages, pageData)
               /\ pipeline' = Delayed(Append(awaits, "push"), urlsToVisit', config.delay)
            \/ \* page.goto, waitForTimeout, disablePageAnimations, extractPageData
               \* or downloadPageAssets throws
               \E done \in IF download THEN StrictPrefixes(awaits) ELSE Prefixes(awaits) :
                  /\ pages' = Append(pages, DegradedPage(curUrl))
                  /\ UNCHANGED urlsToVisit
                  /\ pipeline' = Delayed(Append(done, "push"), urlsToVisit, config.delay)
    /\ cpc' = "loop"
    /\ UNCHANGED <<mode, config, visitedUrls, curUrl, crawlReport>>
    /\ UNCHANGED <<uiVars, loadVars, assetVars, techVars, utilVars>>

\* the finally block, the report and saveReport
CrawlFinish ==
    /\ mode = "scrape" /\ cpc = "closing"
    /\ \/ /\ crawlReport' = [totalPages |-> Len(pages), pages |-> PageUrls(pages)]
          /\ cpc' = "done"
       \/ /\ cpc' = "rejected"          \* context.close, browser.close or writeFileSync throws
          /\ UNCHANGED crawlReport
    /\ UNCHANGED <<mode, config, visitedUrls, urlsToVisit, pages, curUrl, pipeline>>
    /\ UNCHANGED <<uiVars, loadVars, assetVars, techVars, utilVars>>

CrawlStep == CrawlStart \/ CrawlLoop \/ CrawlPage \/ CrawlFinish

----------------------------------------------------------------------------
(* The project store and runProject (project-manager), run by `--ui`        *)
(*                                                                          *)
(* A Project is a record. runProject changes its Project object in place    *)
(* and every such change is followed, before the next await, by             *)
(* projectsStore.set(id, project); updateProject stores a copy. So the      *)
(* store and each invocation hold a Project value of their own, and a write *)
(* of an invocation replaces the value in the store.                        *)

\* the projects in projects.json when the server starts: urls and maxPages
ProjectConfigs ==
    { [urls |-> <<X_b, X_c>>, maxPages |-> 0, delay |-> 1000, downloadAssets |-> TRUE],
      [urls |-> <<Y_root, X_root>>, maxPages |-> 1, delay |-> 0, downloadAssets |-> FALSE] }

\* projectsStore.get(id) === undefined
NoProject == [name |-> "", urls |-> << >>, maxPages |-> 0, delay |-> 0,
              downloadAssets |-> FALSE, rev |-> 0,
              status |-> "none", progress |-> 0, error |-> "", lastReport |-> 0]

\* createProject: the Project record of a new project
NewProject(urls, maxPages) ==
    [name |-> "p", urls |-> urls, maxPages |-> maxPages, delay |-> 1000,
     downloadAssets |-> FALSE, rev |-> 0,
     status |-> "idle", progress |-> 0, error |-> "", lastReport |-> 0]

\* what .replace(/[^a-zA-Z0-9_-]/g, '') leaves of a path segment
FolderPieces(seg) ==
    CASE seg = "" -> << >>
      [] seg = "i.png" -> <<"ipng">>
      [] seg = "I.PNG" -> <<"IPNG">>
      [] OTHER -> <<seg>>

\* .replace(/^\/+|\/+$/g, ''): the slashes at the two ends of the pathname
RECURSIVE StripLeading(_)
StripLeading(path) ==
    IF path # << >> /\ Head(path) = "" THEN StripLeading(Tail(path)) ELSE path

RECURSIVE StripTrailing(_)
StripTrailing(path) ==
    IF path # << >> /\ path[Len(path)] = "" THEN StripTrailing(Front(path)) ELSE path

\* .replace(/\//g, '_') and the filter of the characters
RECURSIVE JoinUnderscore(_)
JoinUnderscore(path) ==
    IF path = << >> THEN << >>
    ELSE IF Len(path) = 1 THEN FolderPieces(path[1])
    ELSE FolderPieces(Head(path)) \o <<"_">> \o JoinUnderscore(Tail(path))

\* getPageFolderName: the name of the folder of a page under the project folder
getPageFolderName(url) ==
    LET parsed == ParseURL(url)
    IN IF parsed = Invalid THEN <<"page">>
       ELSE LET pathname == JoinUnderscore(StripTrailing(StripLeading(parsed.path)))
            IN IF pathname = << >> THEN <<"index">> ELSE pathname

\* pipeline: what the last iteration of the while loop has completed of the
\* download of the page's assets, the push of its PageData and the delay, in order
NoRun == [pc |-> "idle", project |-> Absent, browser |-> FALSE,
          processedUrls |-> 0, urlsToVisit |-> << >>, visitedUrls |-> {},
          allPages |-> << >>, pageCount |-> 0, url |-> Absent, pipeline |-> << >>]

\* a settled invocation: its local variables are gone
SettledRun(pc) == [NoRun EXCEPT !.pc = pc]

NoEvent == [progress |-> 0, status |-> "none"]

RunIds == 1..MaxRuns

\* Math.min(Math.round(baseProgress - urlProgress), 99)
ProgressValue_Minus(processedUrls, totalUrls, pageCount, maxPages) ==
    LET num == IF maxPages > 0
               THEN processedUrls * 100 * maxPages - pageCount * 100
               ELSE processedUrls * 100
        den == IF maxPages > 0 THEN totalUrls * maxPages ELSE totalUrls
        rounded == (2 * num + den) \div (2 * den)
    IN IF rounded < 99 THEN rounded ELSE 99

\* Math.min(Math.round(baseProgress + urlProgress), 99)
ProgressValue(processedUrls, totalUrls, pageCount, maxPages) ==
    LET num == IF maxPages > 0
               THEN processedUrls * 100 * maxPages + pageCount * 100
               ELSE processedUrls * 100
        den == IF maxPages > 0 THEN totalUrls * maxPages ELSE totalUrls
        rounded == (2 * num + den) \div (2 * den)
    IN IF rounded < 99 THEN rounded ELSE 99

\* handleApi: the test that rejects a run request
RunConflict(project) == project.status = "running"

\* the answer of handleApi to POST /api/projects/:id/run
RunResponse ==
    IF projectsStore = NoProject THEN 404
    ELSE IF RunConflict(projectsStore) THEN 400
    ELSE 200

\* the catch block of runProject, entered by invocation r with local variables run
CatchBlock(r, run, err) ==
    LET project == [run.project EXCEPT !.status = "failed", !.error = err]
    IN /\ projectsStore' = project
       /\ \/ /\ diskProjects' = <<project>>
             /\ lastEvent' = [progress |-> project.progress, status |-> "failed"]
             /\ runs' = [runs EXCEPT ![r] =
                           IF run.browser
                           THEN [NoRun EXCEPT !.pc = "catchClose", !.browser = TRUE]
                           ELSE SettledRun("resolved_none")]
          \/ \* saveProjects throws inside the catch block
             /\ runs' = [runs EXCEPT ![r] = SettledRun("rejected")]
             /\ UNCHANGED <<diskProjects, lastEvent>>

\* POST /api/projects/:id/run in handleApi where it starts runProject, and
\* runProject up to its first await; a request answered 404 or 400 returns
\* before it changes anything
RunRequest ==
    /\ mode = "ui"
    /\ RunResponse = 200
    /\ nruns < MaxRuns
    /\ LET r == nruns + 1
           project == [projectsStore EXCEPT !.status = "running", !.progress = 0,
                                            !.error = ""]
       IN /\ nruns' = r
          /\ projectsStore' = project
          /\ \/ /\ diskProjects' = <<project>>
                /\ \/ runs' = [runs EXCEPT ![r] =
                                 [NoRun EXCEPT !.pc = "launch", !.project = project]]
                   \/ \* fs.mkdirSync(projectDir) throws
                      runs' = [runs EXCEPT ![r] = SettledRun("rejected")]
             \/ \* saveProjects throws
                /\ runs' = [runs EXCEPT ![r] = SettledRun("rejected")]
                /\ UNCHANGED diskProjects
    /\ UNCHANGED <<reportJson, lastEvent>>
    /\ UNCHANGED <<mode, edits>> /\ UNCHANGED <<crawlVars, loadVars, assetVars, techVars, utilVars>>

\* the first seed of project.urls in place of the loop variable
BaseUrl_FirstSeed(run) == run.project.urls[1]

\* the seed of project.urls that the for loop is at
BaseUrl(run) == run.project.urls[run.processedUrls + 1]

\* the while condition of runProject
RunLoopCondition(run) ==
    /\ run.urlsToVisit # << >>
    /\ (run.project.maxPages = 0 \/ run.pageCount < run.project.maxPages)

\* the loop head without "if (visitedUrls.has(normalizedUrl)) continue"
AlreadyVisited_Never(visited, normalizedUrl) == FALSE

\* visitedUrls.has(normalizedUrl)
AlreadyVisited(visited, normalizedUrl) == normalizedUrl \in visited

\* the loop heads that run without an await in between: the while condition,
\* shift and the visited test, `continue` for a visited URL, and the step of
\* the for loop to the next seed; ends where page.goto or context.close is
\* awaited
RECURSIVE LoopHead(_)
LoopHead(run) ==
    IF RunLoopCondition(run)
    THEN LET url == Head(run.urlsToVisit)
             normalizedUrl == PM_normalizeUrl(url)
         IN IF AlreadyVisited(run.visitedUrls, normalizedUrl)
            THEN LoopHead([run EXCEPT !.urlsToVisit = Tail(run.urlsToVisit)])
            ELSE [run EXCEPT !.urlsToVisit = Tail(run.urlsToVisit),
                             !.visitedUrls = @ \cup {normalizedUrl},
                             !.url = url, !.pc = "nav"]
    ELSE IF run.processedUrls + 1 < Len(run.project.urls)
    THEN LoopHead([run EXCEPT !.processedUrls = @ + 1,
                              !.urlsToVisit = <<run.project.urls[run.processedUrls + 2]>>,
                              !.pageCount = 0])
    ELSE [run EXCEPT !.processedUrls = @ + 1, !.urlsToVisit = << >>,
                     !.url = Invalid, !.pc = "closing"]

\* chromium.launch, newContext, newPage and the entry of the first seed's loop
RunLaunch(r) ==
    /\ mode = "ui" /\ runs[r].pc = "launch"
    /\ \/ /\ runs' = [runs EXCEPT ![r] =
                        LoopHead([runs[r] EXCEPT
                                    !.browser = TRUE,
                                    !.urlsToVisit = <<runs[r].project.urls[1]>>])]
          /\ UNCHANGED <<projectsStore, diskProjects, lastEvent>>
       \/ CatchBlock(r, runs[r], "error")                        \* chromium.launch throws
       \/ CatchBlock(r, [runs[r] EXCEPT !.browser = TRUE], "error")  \* newContext, newPage
    /\ UNCHANGED reportJson
    /\ UNCHANGED <<mode, nruns, edits>> /\ UNCHANGED <<crawlVars, loadVars, assetVars, techVars, utilVars>>

\* the page pipeline without its own try/catch: a throw reaches the outer catch
RunCapture_NoTry(r) ==
    /\ mode = "ui" /\ runs[r].pc = "nav"
    /\ \/ /\ ParseURL(runs[r].url) # Invalid    \* page.goto throws for any other string
          /\ runs' = [runs EXCEPT ![r].pc = "extract",
                                  ![r].pipeline = << >>]
          /\ lastEvent' = [progress |-> runs[r].project.progress, status |-> "scraping"]
          /\ UNCHANGED <<projectsStore, diskProjects>>
       \/ CatchBlock(r, runs[r], "error")
    /\ UNCHANGED reportJson
    /\ UNCHANGED <<mode, nruns, edits>> /\ UNCHANGED <<crawlVars, loadVars, assetVars, techVars, utilVars>>

\* page.goto, the settle delays, disablePageAnimations, mkdirSync(pageDir),
\* page.screenshot and the progress callback that follows it
RunCapture(r) ==
    /\ mode = "ui" /\ runs[r].pc = "nav"
    /\ \/ /\ ParseURL(runs[r].url) # Invalid    \* page.goto throws for any other string
          /\ runs' = [runs EXCEPT ![r].pc = "extract",
                                  ![r].pipeline = << >>]
          /\ lastEvent' = [progress |-> runs[r].project.progress, status |-> "scraping"]
       \/ \* one of them throws: the page's catch block, then the loop head
          /\ runs' = [runs EXCEPT ![r] = LoopHead([runs[r] EXCEPT !.pipeline = << >>])]
          /\ UNCHANGED lastEvent
    /\ UNCHANGED <<projectsStore, diskProjects, reportJson>>
    /\ UNCHANGED <<mode, nruns, edits>> /\ UNCHANGED <<crawlVars, loadVars, assetVars, techVars, utilVars>>

\* the links queued by runProject for a PageData
RunEnqueue(queue, pageData, baseUrl, visited) ==
    PushNew(queue,
            Hrefs(SelectSeq(pageData.links,
                            LAMBDA link : link.isInternal
                                          /\ PM_shouldCrawl(link.href, baseUrl, visited))))

\* the page recorded before its assets are downloaded
RecordPipeline_RecordFirst(download) ==
    <<"push">> \o (IF download THEN <<"download">> ELSE << >>)

\* "await downloadPageAssets(...)" where assets are downloaded, then
\* allPages.push(pageData)
RecordPipeline(download) ==
    (IF download THEN <<"download">> ELSE << >>) \o <<"push">>

\* extractPageData, then from the write of data.json to the page_complete
\* callback and the delay, then the loop head
RunRecord(r) ==
    LET run == runs[r]
        baseUrl == BaseUrl(run)
        pageData == extractPageData(run.url, baseUrl, TRUE, StatusCode(run.url))
        pageCount == run.pageCount + 1
        progress == ProgressValue(run.processedUrls, Len(run.project.urls), pageCount,
                                  run.project.maxPages)
        project == [run.project EXCEPT !.progress = progress]
        download == run.project.downloadAssets /\ Images(run.url) # << >>
        recorded == run.pipeline \o RecordPipeline(download)
        run2 == [run EXCEPT !.allPages = Append(@, pageData),
                            !.pageCount = pageCount,
                            !.urlsToVisit = RunEnqueue(@, pageData, baseUrl, run.visitedUrls),
                            !.project = project]
    IN /\ mode = "ui" /\ run.pc = "extract"
       /\ Len(run.allPages) < MaxRecords
       /\ \/ \* extractPageData, downloadPageAssets or writeFileSync(dataPath) throws:
             \* the page's catch block
             \E done \in StrictPrefixes(RecordPipeline(download)) :
                /\ runs' = [runs EXCEPT ![r] =
                              LoopHead([run EXCEPT !.pipeline = @ \o done])]
                /\ UNCHANGED <<projectsStore, diskProjects, lastEvent>>
          \/ /\ projectsStore' = project
             /\ \/ /\ diskProjects' = <<project>>
                   /\ lastEvent' = [progress |-> progress, status |-> "scraping"]
                   /\ runs' = [runs EXCEPT ![r] =
                        LoopHead([run2 EXCEPT !.pipeline =
                                    Delayed(recorded, run2.urlsToVisit,
                                            run.project.delay)])]
                \/ \* saveProjects throws: the page's catch block
                   /\ runs' = [runs EXCEPT ![r] =
                                 LoopHead([run2 EXCEPT !.pipeline = recorded])]
                   /\ UNCHANGED <<diskProjects, lastEvent>>
       /\ UNCHANGED reportJson
       /\ UNCHANGED <<mode, nruns, edits>> /\ UNCHANGED <<crawlVars, loadVars, assetVars, techVars, utilVars>>

\* context.close, browser.close, the report files and the completion of the project
RunClose(r) ==
    LET run == runs[r]
        closed == [run EXCEPT !.browser = FALSE]
        report == r
        project == [run.project EXCEPT !.status = "completed", !.progress = 100,
                                       !.lastReport = report]
    IN /\ mode = "ui" /\ run.pc = "closing"
       /\ \/ /\ CatchBlock(r, run, "error")          \* context.close or browser.close
             /\ UNCHANGED reportJson
          \/ /\ CatchBlock(r, closed, "error")       \* writeFileSync(reportPath)
             /\ UNCHANGED reportJson
          \/ /\ CatchBlock(r, closed, "error")       \* writeFileSync(summaryPath)
             /\ reportJson' = report
          \/ /\ reportJson' = report
             /\ \/ /\ projectsStore' = project
                   /\ diskProjects' = <<project>>
                   /\ lastEvent' = [progress |-> 100, status |-> "completed"]
                   /\ runs' = [runs EXCEPT ![r] = SettledRun("resolved_report")]
                \/ \* saveProjects throws
                   CatchBlock(r, [closed EXCEPT !.project = project], "error")
       /\ UNCHANGED <<mode, nruns, edits>> /\ UNCHANGED <<crawlVars, loadVars, assetVars, techVars, utilVars>>

\* the browser.close() at the end of the catch block
RunCatchClose(r) ==
    /\ mode = "ui" /\ runs[r].pc = "catchClose"
    /\ \/ runs' = [runs EXCEPT ![r] = SettledRun("resolved_none")]
       \/ runs' = [runs EXCEPT ![r] = SettledRun("rejected")]
    /\ UNCHANGED <<projectsStore, diskProjects, reportJson, lastEvent>>
    /\ UNCHANGED <<mode, nruns, edits>> /\ UNCHANGED <<crawlVars, loadVars, assetVars, techVars, utilVars>>

\* the parsed bodies of PUT /api/projects/:id: handleApi passes the object that
\* JSON.parse returns to updateProject, which spreads all of its keys over the
\* project; "absent" is a body without the key
UpdateBodies == [status : {"absent", "idle"}]

\* updateProject (PUT /api/projects/:id)
UpdateProject ==
    /\ mode = "ui" /\ projectsStore # NoProject
    /\ edits < MaxEdits
    /\ edits' = edits + 1
    /\ \E updates \in UpdateBodies :
         LET updated == [projectsStore EXCEPT
                           !.rev = @ + 1,
                           !.status = IF updates.status = "absent" THEN @
                                      ELSE updates.status]
         IN /\ projectsStore' = updated
            /\ \/ diskProjects' = <<updated>>
               \/ UNCHANGED diskProjects            \* saveProjects throws
    /\ UNCHANGED <<reportJson, runs, lastEvent>>
    /\ UNCHANGED <<mode, nruns>> /\ UNCHANGED <<crawlVars, loadVars, assetVars, techVars, utilVars>>

\* deleteProject (DELETE /api/projects/:id)
\* the parsed bodies of POST /api/projects
CreateBodies == [name : {"", "p"}, urls : {<< >>, <<Other("notaurl")>>, <<X_c>>},
                 maxPages : {1}]

\* handleApi: the test that rejects a body of POST /api/projects
CreateRejected(body) == body.name = "" \/ Len(body.urls) = 0

\* POST /api/projects: handleApi and createProject
CreateProject ==
    /\ mode = "ui" /\ projectsStore = NoProject
    /\ edits < MaxEdits
    /\ edits' = edits + 1
    /\ \E body \in CreateBodies :
         IF CreateRejected(body)
         THEN UNCHANGED <<projectsStore, diskProjects>>
         ELSE LET project == [NewProject(body.urls, body.maxPages) EXCEPT !.name = body.name]
              IN /\ projectsStore' = project
                 /\ \/ diskProjects' = <<project>>
                    \/ UNCHANGED diskProjects          \* saveProjects throws
    /\ UNCHANGED <<reportJson, runs, lastEvent>>
    /\ UNCHANGED <<mode, nruns>> /\ UNCHANGED <<crawlVars, loadVars, assetVars, techVars, utilVars>>

DeleteProject ==
    /\ mode = "ui" /\ projectsStore # NoProject
    /\ edits < MaxEdits
    /\ edits' = edits + 1
    /\ projectsStore' = NoProject
    /\ \/ diskProjects' = << >>
       \/ UNCHANGED diskProjects                  \* saveProjects throws
    /\ UNCHANGED <<reportJson, runs, lastEvent>>
    /\ UNCHANGED <<mode, nruns>> /\ UNCHANGED <<crawlVars, loadVars, assetVars, techVars, utilVars>>

----------------------------------------------------------------------------
(* loadProjects (project-manager), run when the server process starts *)

\* a projects.json that JSON.parse rejects
CorruptFile == <<[NoProject EXCEPT !.status = "corrupt"]>>

\* the status and progress a project can have been persisted with
PersistedStates ==
    {<<"idle", 0>>, <<"running", 0>>, <<"running", 40>>, <<"running", 99>>,
     <<"completed", 100>>, <<"failed", 0>>, <<"failed", 40>>, <<"failed", 100>>}

\* the projects.json found at startup: none, unparsable, or one project
StartupFiles ==
    {<< >>, CorruptFile}
      \cup { <<[NewProject(<<X_b>>, 0) EXCEPT !.status = st[1], !.progress = st[2]]>> :
                st \in PersistedStates }

\* the body of the for loop of loadProjects
ResetRunning(project) ==
    IF project.status = "running"
    THEN [project EXCEPT !.status = "idle", !.progress = 0]
    ELSE project

\* loadProjects
LoadProjects ==
    /\ mode = "load" /\ lpc = "start"
    /\ IF startupFile = << >>
       THEN \* no projects.json; ensureDataDir may have to create the directory
            /\ lpc' \in {"returned", "threw"}
            /\ UNCHANGED <<projectsStore, diskProjects>>
       ELSE IF startupFile = CorruptFile
       THEN \* JSON.parse throws: the catch block
            /\ lpc' = "returned"
            /\ projectsStore' = NoProject
            /\ UNCHANGED diskProjects
       ELSE LET project == ResetRunning(startupFile[1])
            IN /\ lpc' = "returned"
               /\ \/ /\ projectsStore' = project
                     /\ diskProjects' = <<project>>
                  \/ \* saveProjects throws: the catch block empties the store
                     /\ projectsStore' = NoProject
                     /\ UNCHANGED diskProjects
    /\ UNCHANGED <<mode, startupFile, reportJson, runs, nruns, edits, lastEvent>>
    /\ UNCHANGED <<crawlVars, assetVars, techVars, utilVars>>

----------------------------------------------------------------------------
(* Asset downloads (src/utils/assets.ts): downloadAssets, downloadAsset,    *)
(* downloadFile                                                              *)
(*                                                                          *)
(* A file name is a pair <<filename, n>>: <<"a.png", 0>> is "a.png" and     *)
(* <<"a.png", 2>> is "a_2.png". A directory is a set of files               *)
(* [name, by, size]; by is the downloadAsset call that wrote the file, 0    *)
(* for a file that was there before the downloadAssets call.                *)

A_png == Abs("x", <<"a.png">>, "", "")
A_v == Abs("x", <<"a.png">>, "v=2", "")
A_rel == Root(<<"img", "a.png">>, "")
Big_png == Abs("x", <<"big.png">>, "", "")
Stream_png == Abs("x", <<"stream.png">>, "", "")
Gone_png == Abs("x", <<"gone.png">>, "", "")
R1_png == Abs("x", <<"r1.png">>, "", "")
R2_png == Abs("x", <<"r2.png">>, "", "")
L1_png == Abs("x", <<"l1.png">>, "", "")
L2_png == Abs("x", <<"l2.png">>, "", "")
DataUrl == [kind |-> "data", host |-> "", path |-> << >>, search |-> "", hash |-> ""]
BadUrl == [kind |-> "bad", host |-> "", path |-> << >>, search |-> "", hash |-> ""]

\* the answer of the asset server to a GET: contentLength 0 is a response
\* without the header, chunks are the lengths of the body's data events
AssetResponse(url) ==
    LET seg == url.path[Len(url.path)]
    IN CASE seg = "a.png" ->
              [status |-> 200, location |-> Invalid, contentLength |-> 1, chunks |-> <<1>>]
         [] seg = "big.png" ->
              [status |-> 200, location |-> Invalid, contentLength |-> 3, chunks |-> <<3>>]
         [] seg = "stream.png" ->
              [status |-> 200, location |-> Invalid, contentLength |-> 0, chunks |-> <<2, 1>>]
         [] seg = "r1.png" ->
              [status |-> 301, location |-> A_png, contentLength |-> 0, chunks |-> << >>]
         [] seg = "r2.png" ->
              [status |-> 302, location |-> R1_png, contentLength |-> 0, chunks |-> << >>]
         [] seg = "l1.png" ->
              [status |-> 302, location |-> L2_png, contentLength |-> 0, chunks |-> << >>]
         [] seg = "l2.png" ->
              [status |-> 302, location |-> L1_png, contentLength |-> 0, chunks |-> << >>]
         [] OTHER ->
              [status |-> 404, location |-> Invalid, contentLength |-> 0, chunks |-> << >>]

\* the urls arguments explored
AssetLists ==
    { << >>, <<R1_png>>, <<L1_png, A_png>>,
      <<A_png, A_v, Big_png>>,
      <<A_rel, DataUrl, Gone_png>>,
      <<R2_png, Gone_png, A_png>>,
      <<Stream_png, BadUrl, A_png>>,
      <<Stream_png, Big_png>> }

\* the options arguments explored; concurrency 0 stands for an options object
\* without the key
AssetOptions == [baseUrl : {X_root}, maxSize : {2}, concurrency : {0, 1, 2}]

\* options.concurrency ?? 5
Concurrency == IF options.concurrency = 0 THEN 5 ELSE options.concurrency

NoPath == <<"", 0>>
NoError == [kind |-> "", code |-> 0]
AssetError(kind, code) == [kind |-> kind, code |-> code]

\* the AssetDownloadResult values
Success(url, localPath, size) ==
    [url |-> url, success |-> TRUE, localPath |-> localPath, size |-> size,
     error |-> NoError]
Failure(url, error) ==
    [url |-> url, success |-> FALSE, localPath |-> NoPath, size |-> 0, error |-> error]

NoResult == Failure(Invalid, NoError)

\* a downloadAsset call that has not been made
NoDownload == [pc |-> "pending", url |-> Invalid, destPath |-> NoPath, fetched |-> << >>,
               received |-> 0, chunk |-> 0, result |-> NoResult]

\* a downloadAsset call whose promise has resolved with result
SettledDownload(d, result) == [d EXCEPT !.pc = "settled", !.result = result]

\* fs.existsSync(path.join(dir, name))
existsSync(dir, name) == \E f \in dir : f.name = name

\* fs.writeFileSync(destPath, buffer)
writeFileSync(dir, name, by, size) ==
    {f \in dir : f.name # name} \cup {[name |-> name, by |-> by, size |-> size]}

\* sanitizeFilename(parsedUrl.pathname): the last path segment, 'unnamed' for an
\* empty one (the segments of the model hold none of the characters it replaces)
sanitizeFilename(pathname) ==
    LET last == pathname[Len(pathname)]
    IN IF last = "" THEN "unnamed" ELSE last

\* the while loop of getUniqueFilename
RECURSIVE UniqueFrom(_, _, _)
UniqueFrom(dir, filename, counter) ==
    IF existsSync(dir, <<filename, counter>>)
    THEN UniqueFrom(dir, filename, counter + 1)
    ELSE <<filename, counter>>

getUniqueFilename(dir, filename) == UniqueFrom(dir, filename, 0)

\* downloadAsset without the test for data URLs
IsDataUrl_Never(resolvedUrl) == FALSE

\* resolvedUrl.startsWith('data:')
IsDataUrl(resolvedUrl) == resolvedUrl.kind = "data"

\* downloadAsset up to the call of downloadFile, whose executor sends the request
downloadAsset(url, dir) ==
    LET resolvedUrl == IF url.kind = "root" THEN ResolveRoot(url, options.baseUrl)
                       ELSE url
        parsedUrl == ParseURL(resolvedUrl)
        started == [NoDownload EXCEPT !.url = resolvedUrl]
    IN IF IsDataUrl(resolvedUrl)
       THEN SettledDownload(started, Failure(url, AssetError("data", 0)))
       ELSE IF resolvedUrl.kind = "data"
       THEN \* http.get throws for the protocol
            SettledDownload(started, Failure(url, AssetError("protocol", 0)))
       ELSE IF parsedUrl = Invalid
       THEN SettledDownload(started, Failure(url, AssetError("invalid", 0)))
       ELSE [started EXCEPT
               !.pc = "request",
               !.destPath = getUniqueFilename(dir, sanitizeFilename(parsedUrl.path)),
               !.fetched = <<resolvedUrl>>]

\* urls.slice(i) in place of urls.slice(i, i + concurrency)
Batch_Unbounded(i) == {k \in 1..Len(assetUrls) : i < k}

\* the indices of urls.slice(i, i + concurrency)
Batch(i) == {k \in 1..Len(assetUrls) : i < k /\ k <= i + Concurrency}

\* batch.map(url => downloadAsset(url, destDir, options))
StartBatch(i) ==
    [k \in 1..Len(assetUrls) |->
        IF k \in Batch(i) THEN downloadAsset(assetUrls[k], destDir) ELSE downloads[k]]

\* completed++ for successful results only
CompletedAfter_SuccessOnly(c, batchResults, j) ==
    c + Cardinality({m \in 1..j : batchResults[m].success})

\* the value of completed after the j-th result of a batch
CompletedAfter(c, batchResults, j) == c + j

\* the URLs that a download has requested, up to MaxFetched of them
Fetched(fetched, url) ==
    IF Len(fetched) < MaxFetched THEN Append(fetched, url) ELSE fetched

\* the call of downloadAssets up to its first await
DownloadAssetsCall ==
    /\ mode = "assets" /\ apc = "start"
    /\ IF Len(assetUrls) > 0
       THEN /\ downloads' = StartBatch(0)
            /\ apc' = "await"
       ELSE /\ apc' = "returned"
            /\ UNCHANGED downloads
    /\ UNCHANGED <<assetUrls, options, batchStart, results, completed, progressCalls, destDir>>
    /\ UNCHANGED <<mode, crawlVars, uiVars, loadVars, techVars, utilVars>>

\* the response callback of downloadFile, or the request's timeout or error event
DownloadResponse(k) ==
    LET d == downloads[k]
        response == AssetResponse(d.url)
        redirectUrl == response.location
    IN /\ mode = "assets" /\ d.pc = "request"
       /\ \/ downloads' = [downloads EXCEPT ![k] =
               IF response.status \in {301, 302} /\ redirectUrl # Invalid
               THEN [d EXCEPT !.url = redirectUrl, !.fetched = Fetched(@, redirectUrl)]
               ELSE IF response.status # 200
               THEN SettledDownload(d, Failure(assetUrls[k], AssetError("http", response.status)))
               ELSE IF response.contentLength > options.maxSize
               THEN SettledDownload(d, Failure(assetUrls[k],
                                               AssetError("size", response.contentLength)))
               ELSE [d EXCEPT !.pc = "body"]]
          \/ downloads' = [downloads EXCEPT ![k] =
               SettledDownload(d, Failure(assetUrls[k], AssetError("timeout", 0)))]
       /\ UNCHANGED <<assetUrls, options, apc, batchStart, results, completed, progressCalls,
                      destDir>>
       /\ UNCHANGED <<mode, crawlVars, uiVars, loadVars, techVars, utilVars>>

\* the data handler without the test of downloadedSize
TooLarge_Never(downloadedSize) == FALSE

\* downloadedSize > maxSize
TooLarge(downloadedSize) == downloadedSize > options.maxSize

\* a data event of the response, or the request's timeout or error event
DownloadData(k) ==
    LET d == downloads[k]
        response == AssetResponse(d.url)
        downloadedSize == d.received + response.chunks[d.chunk + 1]
    IN /\ mode = "assets" /\ d.pc = "body"
       /\ d.chunk < Len(response.chunks)
       /\ \/ downloads' = [downloads EXCEPT ![k] =
               IF TooLarge(downloadedSize)
               THEN SettledDownload([d EXCEPT !.received = downloadedSize],
                                    Failure(assetUrls[k], AssetError("size", 0)))
               ELSE [d EXCEPT !.received = downloadedSize, !.chunk = @ + 1]]
          \/ downloads' = [downloads EXCEPT ![k] =
               SettledDownload(d, Failure(assetUrls[k], AssetError("timeout", 0)))]
       /\ UNCHANGED <<assetUrls, options, apc, batchStart, results, completed, progressCalls,
                      destDir>>
       /\ UNCHANGED <<mode, crawlVars, uiVars, loadVars, techVars, utilVars>>

\* the end event of the response
DownloadEnd(k) ==
    LET d == downloads[k]
        response == AssetResponse(d.url)
    IN /\ mode = "assets" /\ d.pc = "body"
       /\ d.chunk = Len(response.chunks)
       /\ \/ /\ destDir' = writeFileSync(destDir, d.destPath, k, d.received)
             /\ downloads' = [downloads EXCEPT ![k] =
                  SettledDownload(d, Success(assetUrls[k], d.destPath, d.received))]
          \/ \* writeFileSync throws
             /\ downloads' = [downloads EXCEPT ![k] =
                  SettledDownload(d, Failure(assetUrls[k], AssetError("fs", 0)))]
             /\ UNCHANGED destDir
       /\ UNCHANGED <<assetUrls, options, apc, batchStart, results, completed, progressCalls>>
       /\ UNCHANGED <<mode, crawlVars, uiVars, loadVars, techVars, utilVars>>

\* Promise.all of a batch resolves: the loop over batchResults, then the next
\* batch or the return
DownloadAssetsResume ==
    LET size == Cardinality(Batch(batchStart))
        batchResults == [j \in 1..size |-> downloads[batchStart + j].result]
        i == batchStart + Concurrency
    IN /\ mode = "assets" /\ apc = "await"
       /\ \A k \in Batch(batchStart) : downloads[k].pc = "settled"
       /\ results' = results \o batchResults
       /\ completed' = CompletedAfter(completed, batchResults, size)
       /\ progressCalls' = progressCalls \o
              [j \in 1..size |-> [completed |-> CompletedAfter(completed, batchResults, j),
                                  total |-> Len(assetUrls),
                                  url |-> batchResults[j].url]]
       /\ batchStart' = i
       /\ IF i < Len(assetUrls)
          THEN /\ downloads' = StartBatch(i)
               /\ UNCHANGED apc
          ELSE /\ apc' = "returned"
               /\ UNCHANGED downloads
       /\ UNCHANGED <<assetUrls, options, destDir>>
       /\ UNCHANGED <<mode, crawlVars, uiVars, loadVars, techVars, utilVars>>

----------------------------------------------------------------------------
(* aggregateTechnologies (SiteCrawler and project-manager) *)

TechNames == {"React", "jQuery"}
Confidences == {"low", "medium", "high"}
\* a TechnologyInfo: the version is the one the page's scripts report
TechV(name, confidence, version) ==
    [name |-> name, confidence |-> confidence, version |-> version]

Tech(name, confidence) == TechV(name, confidence, "1")

\* the technologies lists of a page: detectTechnologies reports a name once
PageTechnologies ==
    {<< >>}
      \cup { <<Tech(n, c)>> : n \in TechNames, c \in Confidences }
      \cup { <<Tech("React", c), Tech("jQuery", d)>> : c, d \in Confidences }
      \cup { <<TechV("React", c, "2")>> : c \in Confidences }

\* the pages arguments explored: the technologies of up to three pages
TechPageLists ==
    {<< >>} \cup { <<t>> : t \in PageTechnologies }
            \cup { <<t, u>> : t, u \in PageTechnologies }
            \cup { <<t, u, v>> : t, u, v \in PageTechnologies }

\* techMap.get(tech.name) is defined
TechMapHas(techMap, name) == \E i \in 1..Len(techMap) : techMap[i].name = name

\* techMap.set(tech.name, tech): a Map keeps the position of a key it holds
TechMapSet(techMap, tech) ==
    IF TechMapHas(techMap, tech.name)
    THEN [i \in 1..Len(techMap) |->
            IF techMap[i].name = tech.name THEN tech ELSE techMap[i]]
    ELSE Append(techMap, tech)

\* the condition without "|| tech.confidence === 'high'"
TechReplaces_FirstOnly(techMap, tech) == ~TechMapHas(techMap, tech.name)

\* !existing || tech.confidence === 'high'
TechReplaces(techMap, tech) ==
    ~TechMapHas(techMap, tech.name) \/ tech.confidence = "high"

\* the inner loop: the technologies of one page
RECURSIVE AggregatePage(_, _)
AggregatePage(techMap, techs) ==
    IF techs = << >> THEN techMap
    ELSE AggregatePage(IF TechReplaces(techMap, Head(techs))
                       THEN TechMapSet(techMap, Head(techs)) ELSE techMap,
                       Tail(techs))

\* the outer loop over the pages
RECURSIVE AggregatePages(_, _)
AggregatePages(techMap, ps) ==
    IF ps = << >> THEN techMap
    ELSE AggregatePages(AggregatePage(techMap, Head(ps)), Tail(ps))

\* SiteCrawler.aggregateTechnologies
aggregateTechnologies(ps) == AggregatePages(<< >>, ps)

\* project-manager aggregateTechnologies
PM_aggregateTechnologies(ps) == AggregatePages(<< >>, ps)

NoTechnologies == [returned |-> FALSE, crawler |-> << >>, pm |-> << >>]

\* the report's technologies: generateReport and runProject
AggregateTechnologies ==
    /\ mode = "tech" /\ ~technologies.returned
    /\ technologies' = [returned |-> TRUE,
                        crawler |-> aggregateTechnologies(techPages),
                        pm |-> PM_aggregateTechnologies(techPages)]
    /\ UNCHANGED <<mode, techPages>>
    /\ UNCHANGED <<crawlVars, uiVars, loadVars, assetVars, utilVars>>

----------------------------------------------------------------------------
(* normalizeUrl called on its own result *)

\* url followed by "/"
WithSlash(url) == [url EXCEPT !.path = Append(url.path, "")]

\* URL strings passed to normalizeUrl: hrefs of links and seeds
NormUrls ==
    { Abs("x", p, s, f) : p \in {<<"">>, <<"a">>, <<"a", "">>, <<"a", "b">>},
                          s \in {"", "q"}, f \in {"", "t"} }
    \cup {X_bare, Root(<<"a">>, ""), Invalid}

NormArgs == { [url |-> u, slashed |-> IF u.kind = "abs" THEN WithSlash(u) ELSE u] :
              u \in NormUrls }

NoNormArg == [url |-> Invalid, slashed |-> Invalid]

NoNormResult == [crawler |-> << >>, pm |-> << >>, slashed |-> << >>]

\* normalizeUrl applied to the URL, or to the string the last call returned
NormalizeUrl ==
    /\ mode = "normalize" /\ Len(normResult.crawler) < 2
    /\ LET n == Len(normResult.crawler)
           arg == IF n = 0 THEN [crawler |-> normArg.url, pm |-> normArg.url,
                                 slashed |-> normArg.slashed]
                  ELSE [crawler |-> normResult.crawler[n], pm |-> normResult.pm[n],
                        slashed |-> normResult.slashed[n]]
       IN normResult' = [crawler |-> Append(normResult.crawler, normalizeUrl(arg.crawler)),
                         pm |-> Append(normResult.pm, PM_normalizeUrl(arg.pm)),
                         slashed |-> Append(normResult.slashed, normalizeUrl(arg.slashed))]
    /\ UNCHANGED <<mode, normArg>>
    /\ UNCHANGED <<crawlVars, uiVars, loadVars, assetVars, techVars, sanVars, cliVars, cloneVars, moreVars>>

----------------------------------------------------------------------------
(* sanitizeFilename (src/utils/assets.ts) on strings given by their parts   *)
(*                                                                         *)
(* A string is [dirs, stem, ext, bad, query, hash]: dirs tells whether a    *)
(* path ending in "/" precedes the name, stem is the number of characters   *)
(* before the last "." of the name, ext the number of characters from that  *)
(* "." on (0: no "."), bad tells whether the name holds characters of the   *)
(* class that is replaced, query and hash whether "?..." and "#..." follow. *)

MaxFilenameLength == 200

\* the length of 'unnamed'
UnnamedLength == 7

Filenames == [dirs : BOOLEAN, stem : {0, 1, 250}, ext : {0, 4, 300},
              bad : BOOLEAN, query : BOOLEAN, hash : BOOLEAN]

Unnamed == [unnamed |-> TRUE, stem |-> 0, ext |-> 0,
            bad |-> FALSE, query |-> FALSE, hash |-> FALSE]

NoFilename == [Unnamed EXCEPT !.unnamed = FALSE]

\* path.extname(name).length: a name that starts with its only "." has none
ExtnameLength(name) == IF name.stem = 0 THEN 0 ELSE name.ext

\* substring(0, n): a negative n is taken as 0
Substring(name, n) ==
    LET m == IF n < 0 THEN 0 ELSE n
    IN IF m <= name.stem THEN [name EXCEPT !.stem = m, !.ext = 0]
       ELSE [name EXCEPT !.ext = IF m - name.stem < name.ext THEN m - name.stem ELSE name.ext]

\* if (sanitized.length > 200) { ext = extname; substring(0, 200 - ext.length) + ext }
Truncate(name) ==
    IF name.stem + name.ext > MaxFilenameLength
    THEN LET ext == ExtnameLength(name)
             kept == Substring(name, MaxFilenameLength - ext)
         IN IF ext = 0 THEN kept ELSE [kept EXCEPT !.ext = kept.ext + ext]
    ELSE name

\* sanitizeFilename
sanitizeFilenameParts(filename) ==
    LET base == [unnamed |-> FALSE, stem |-> filename.stem, ext |-> filename.ext,
                 bad |-> filename.bad, query |-> filename.query, hash |-> filename.hash]
        popped == IF base.stem + base.ext = 0 /\ ~base.query /\ ~base.hash
                  THEN Unnamed ELSE base
        cut == [popped EXCEPT !.query = FALSE, !.hash = FALSE]
        replaced == [cut EXCEPT !.bad = FALSE]
        limited == IF replaced.unnamed THEN replaced ELSE Truncate(replaced)
    IN IF ~limited.unnamed /\ limited.stem + limited.ext = 0 THEN Unnamed ELSE limited

\* a call of sanitizeFilename
SanitizeFilename ==
    /\ mode = "sanitize" /\ sanResult = NoFilename
    /\ sanResult' = sanitizeFilenameParts(sanArg)
    /\ UNCHANGED <<mode, sanArg>>
    /\ UNCHANGED <<crawlVars, uiVars, loadVars, assetVars, techVars, normVars, cliVars, cloneVars, moreVars>>

----------------------------------------------------------------------------
(* parseArgs (src/cli.ts) *)

\* the command-line words explored
UrlWords == {"https://x", "notaurl"}
Words == {"clone", "--ui", "--url", "-m", "5"} \cup UrlWords

ArgLists == { <<a>> : a \in Words } \cup { <<a, b>> : a, b \in Words }
            \cup { <<a, b, c>> : a, b, c \in Words }

\* the URL string that a word is
WordUrl(word) == IF word = "https://x" THEN X_bare ELSE Other(word)

\* arg.startsWith('-')
StartsWithDash(word) == word \in {"--ui", "--url", "-m"}

\* parseInt(word, 10)
ParseInt(word) == IF word = "5" THEN [nan |-> FALSE, n |-> 5] ELSE [nan |-> TRUE, n |-> 0]

Undefined == [kind |-> "undefined", host |-> "", path |-> << >>, search |-> "", hash |-> ""]

\* the locals of parseArgs before the loop
NoArgs == [baseUrl |-> Undefined, clonerUrl |-> Undefined,
           maxPages |-> [nan |-> TRUE, n |-> 0], maxPagesSet |-> FALSE,
           launchUi |-> FALSE, mode |-> "scrape", exit |-> FALSE]

\* the for loop of parseArgs from index i on; exit is set where getNextArg
\* ends the process
RECURSIVE ParseLoop(_, _, _)
ParseLoop(args, i, st) ==
    IF i > Len(args) THEN st
    ELSE LET arg == args[i]
             hasNext == i + 1 <= Len(args)
         IN IF arg = "clone" THEN ParseLoop(args, i + 1, [st EXCEPT !.mode = "clone"])
            ELSE IF arg = "--ui"
            THEN ParseLoop(args, i + 1, [st EXCEPT !.launchUi = TRUE, !.mode = "ui"])
            ELSE IF arg = "--url"
            THEN IF hasNext
                 THEN ParseLoop(args, i + 2, [st EXCEPT !.baseUrl = WordUrl(args[i + 1]),
                                                       !.clonerUrl = WordUrl(args[i + 1])])
                 ELSE [st EXCEPT !.exit = TRUE]
            ELSE IF arg = "-m"
            THEN IF hasNext
                 THEN ParseLoop(args, i + 2, [st EXCEPT !.maxPages = ParseInt(args[i + 1]),
                                                       !.maxPagesSet = TRUE])
                 ELSE [st EXCEPT !.exit = TRUE]
            ELSE IF ~StartsWithDash(arg) /\ st.baseUrl = Undefined /\ arg # "clone"
            THEN ParseLoop(args, i + 1, st)          \* the branch has an empty body
            ELSE IF ~StartsWithDash(arg) /\ st.baseUrl = Undefined
            THEN ParseLoop(args, i + 1, [st EXCEPT !.baseUrl = WordUrl(arg),
                                                  !.clonerUrl = WordUrl(arg)])
            ELSE ParseLoop(args, i + 1, st)

NoResult_Cli == [status |-> "none", mode |-> "none", url |-> Undefined,
                 maxPages |-> [nan |-> TRUE, n |-> 0]]

Exit1 == [NoResult_Cli EXCEPT !.status = "exit1"]

\* parseArgs: the ParseResult returned, or Exit1 where it calls process.exit(1)
parseArgs(args) ==
    LET st == ParseLoop(args, 1, NoArgs)
    IN IF st.exit THEN Exit1
       ELSE IF st.launchUi THEN [NoResult_Cli EXCEPT !.status = "returned", !.mode = "ui"]
       ELSE IF st.mode = "clone"
       THEN IF st.clonerUrl = Undefined \/ ParseURL(st.clonerUrl) = Invalid THEN Exit1
            ELSE [status |-> "returned", mode |-> "clone", url |-> st.clonerUrl,
                  maxPages |-> [nan |-> TRUE, n |-> 0]]
       ELSE IF st.baseUrl = Undefined \/ ParseURL(st.baseUrl) = Invalid THEN Exit1
       ELSE [status |-> "returned", mode |-> "scrape", url |-> st.baseUrl,
             maxPages |-> st.maxPages]

\* main: parseArgs(process.argv.slice(2))
ParseArgs ==
    /\ mode = "cli" /\ cliResult = NoResult_Cli
    /\ cliResult' = parseArgs(cliArgs)
    /\ UNCHANGED <<mode, cliArgs>>
    /\ UNCHANGED <<crawlVars, uiVars, loadVars, assetVars, techVars, normVars, sanVars, cloneVars, moreVars>>

----------------------------------------------------------------------------
(* SiteCloner (src/cloner.ts), the run of `site-scraper clone <url>` *)

\* the configurations explored: DEFAULT_CONFIG with the flags of the caller
CloneConfigs == [url : {X_root}, downloadImages : BOOLEAN, downloadCss : BOOLEAN,
                 downloadJs : BOOLEAN]

\* what the selectors of the extract functions return for the cloned document
CssUrls == <<Root(<<"s.css">>, ""), Root(<<"t.css">>, "")>>
JsUrls == <<Root(<<"a.js">>, "")>>
ImageUrls == <<Root(<<"i.png">>, ""), DataUrl>>

\* content.length of the file served for a URL, Buffer.byteLength of the document
ContentLength(url) ==
    CASE url.path = <<"s.css">> -> 2
      [] url.path = <<"t.css">> -> 3
      [] url.path = <<"a.js">> -> 5
      [] OTHER -> 1

\* the loop of an extract function: an asset for each URL that downloadFile
\* returns content for (the URLs in fetched), none for a data URL
RECURSIVE ExtractLoop(_, _, _, _)
ExtractLoop(urls, fetched, type, baseUrl) ==
    IF urls = << >> THEN << >>
    ELSE LET url == Head(urls)
             rest == ExtractLoop(Tail(urls), fetched, type, baseUrl)
         IN IF url \notin fetched \/ (type = "image" /\ IsDataUrl(url)) THEN rest
            ELSE <<[originalUrl |-> Resolve(url, baseUrl), type |-> type,
                    size |-> ContentLength(url)]>> \o rest

Range(q) == { q[i] : i \in 1..Len(q) }

\* an extract function that ignores its flag
Skipped_Never(flag) == FALSE

\* if (!this.config.downloadCss) return; and likewise for JS and images
Skipped(flag) == ~flag

NoCloneResult == [assets |-> << >>, totalAssets |-> -1, totalSize |-> -1]

\* clone() up to the first extract function
CloneStart ==
    /\ mode = "clone" /\ kpc = "start"
    /\ \/ kpc' = "css"
       \/ kpc' = "rejected"     \* mkdirSync, launch, newContext, newPage or goto throws
    /\ UNCHANGED <<mode, cloneConfig, clonedAssets, cloneResult>>
    /\ UNCHANGED <<crawlVars, uiVars, loadVars, assetVars, techVars, normVars, sanVars, cliVars, moreVars>>

\* one of extractCssFiles, extractJsFiles, extractImages
Extract(at, flag, urls, type, next) ==
    /\ mode = "clone" /\ kpc = at
    /\ IF Skipped(flag)
       THEN /\ kpc' = next
            /\ UNCHANGED clonedAssets
       ELSE \/ \E fetched \in SUBSET Range(urls) :
                 /\ clonedAssets' =
                      clonedAssets \o ExtractLoop(urls, fetched, type, cloneConfig.url)
                 /\ kpc' = next
            \/ /\ kpc' = "rejected"              \* page.evaluate throws
               /\ UNCHANGED clonedAssets
    /\ UNCHANGED <<mode, cloneConfig, cloneResult>>
    /\ UNCHANGED <<crawlVars, uiVars, loadVars, assetVars, techVars, normVars, sanVars, cliVars, moreVars>>

ExtractCssFiles == Extract("css", cloneConfig.downloadCss, CssUrls, "css", "js")

ExtractJsFiles == Extract("js", cloneConfig.downloadJs, JsUrls, "js", "images")

ExtractImages == Extract("images", cloneConfig.downloadImages, ImageUrls, "image", "html")

\* saveHtml
SaveHtml ==
    /\ mode = "clone" /\ kpc = "html"
    /\ \/ /\ clonedAssets' = Append(clonedAssets,
                                     [originalUrl |-> cloneConfig.url, type |-> "html",
                                      size |-> ContentLength(cloneConfig.url)])
          /\ kpc' = "closing"
       \/ /\ kpc' = "rejected"                   \* page.content or writeFileSync throws
          /\ UNCHANGED clonedAssets
    /\ UNCHANGED <<mode, cloneConfig, cloneResult>>
    /\ UNCHANGED <<crawlVars, uiVars, loadVars, assetVars, techVars, normVars, sanVars, cliVars, moreVars>>

RECURSIVE TotalSize(_)
\* this.assets.reduce((sum, asset) => sum + asset.size, 0)
TotalSize(list) == IF list = << >> THEN 0 ELSE Head(list).size + TotalSize(Tail(list))

\* context.close, the result, the clone report and closeBrowser
CloneFinish ==
    /\ mode = "clone" /\ kpc = "closing"
    /\ \/ /\ cloneResult' = [assets |-> clonedAssets, totalAssets |-> Len(clonedAssets),
                              totalSize |-> TotalSize(clonedAssets)]
          /\ kpc' = "returned"
       \/ /\ kpc' = "rejected"      \* context.close, writeFileSync or browser.close throws
          /\ UNCHANGED cloneResult
    /\ UNCHANGED <<mode, cloneConfig, clonedAssets>>
    /\ UNCHANGED <<crawlVars, uiVars, loadVars, assetVars, techVars, normVars, sanVars, cliVars, moreVars>>

----------------------------------------------------------------------------
(* detectTechnologies (tech-detector): the loop over the patterns of one entry *)
(* of TECH_PATTERNS                                                          *)

\* a pattern and what the page holds for it: regexp = the pattern is a RegExp,
\* src = it matches a script[src], inline = it matches an inline script,
\* found = the global, the meta name or the element exists
Pattern(type, regexp, src, inline, found) ==
    [type |-> type, regexp |-> regexp, src |-> src, inline |-> inline, found |-> found]

Patterns ==
    { Pattern("script", TRUE, src, inline, FALSE) : src, inline \in BOOLEAN }
      \cup { Pattern("script", FALSE, TRUE, TRUE, FALSE) }
      \cup { Pattern(type, FALSE, FALSE, FALSE, found) :
                type \in {"global", "meta", "element"}, found \in BOOLEAN }

\* the entries explored: one to three patterns
PatternLists ==
    { <<s>> : s \in Patterns } \cup { <<s, t>> : s, t \in Patterns }
        \cup { <<s, t, u>> : s, t, u \in Patterns }

\* the body of "for (const pattern of tech.patterns)" up to the break test:
\* isDetected and confidence after it
EvaluatePattern(pattern, det, conf) ==
    CASE pattern.type = "script" ->
           IF pattern.regexp /\ pattern.src
           THEN [isDetected |-> TRUE, confidence |-> "high"]
           ELSE IF ~det /\ pattern.regexp /\ pattern.inline
           THEN [isDetected |-> TRUE, confidence |-> "medium"]
           ELSE [isDetected |-> det, confidence |-> conf]
      [] pattern.type \in {"global", "meta"} ->
           IF pattern.found
           THEN [isDetected |-> TRUE, confidence |-> "high"]
           ELSE [isDetected |-> det, confidence |-> conf]
      [] pattern.type = "element" ->
           IF pattern.found
           THEN [isDetected |-> TRUE,
                 confidence |-> IF conf = "low" THEN "medium" ELSE conf]
           ELSE [isDetected |-> det, confidence |-> conf]

\* the loop without its break
Break_Never(det, conf) == FALSE

\* if (isDetected && confidence === 'high') break
Break(det, conf) == det /\ conf = "high"

\* one iteration of the loop over tech.patterns
DetectPattern ==
    /\ mode = "detect" /\ dpc = "patterns"
    /\ LET pattern == patterns[patternIndex + 1]
           after == EvaluatePattern(pattern, isDetected, detConfidence)
       IN \/ /\ patternIndex' = patternIndex + 1
             /\ isDetected' = after.isDetected
             /\ detConfidence' = after.confidence
             /\ dpc' = IF Break(after.isDetected, after.confidence)
                          \/ patternIndex' = Len(patterns)
                       THEN "push" ELSE "patterns"
          \/ \* page.evaluate throws
             /\ pattern.type \in {"global", "element"}
             /\ dpc' = "rejected"
             /\ UNCHANGED <<patternIndex, isDetected, detConfidence>>
    /\ UNCHANGED <<mode, patterns, detected>>
    /\ UNCHANGED <<crawlVars, uiVars, loadVars, assetVars, techVars, normVars, sanVars,
                   cliVars, cloneVars>>

\* if (isDetected) detected.push({name, version, category, confidence})
DetectPush ==
    /\ mode = "detect" /\ dpc = "push"
    /\ detected' = IF isDetected THEN Append(detected, Tech("React", detConfidence))
                   ELSE detected
    /\ dpc' = "returned"
    /\ UNCHANGED <<mode, patterns, patternIndex, isDetected, detConfidence>>
    /\ UNCHANGED <<crawlVars, uiVars, loadVars, assetVars, techVars, normVars, sanVars,
                   cliVars, cloneVars>>

----------------------------------------------------------------------------

Init ==
    /\ mode \in {"scrape", "ui", "load", "assets", "tech", "normalize", "sanitize",
                "cli", "clone", "detect"}
    /\ config \in IF mode = "scrape"
                   THEN [baseUrl : CrawlSeeds, maxPages : MaxPagesChoices,
                         delay : Delays, downloadAssets : BOOLEAN]
                   ELSE {Absent}
    /\ cpc = "start"
    /\ visitedUrls = {}
    /\ urlsToVisit = << >>
    /\ pages = << >>
    /\ curUrl = IF mode = "scrape" THEN Invalid ELSE Absent
    /\ crawlReport = IF mode = "scrape" THEN NoReport ELSE Absent
    /\ pipeline = << >>
    /\ startupFile \in IF mode = "load" THEN StartupFiles ELSE {<< >>}
    /\ lpc = IF mode = "load" THEN "start" ELSE "returned"
    /\ IF mode = "ui"
       THEN \/ \E c \in ProjectConfigs :
                 /\ projectsStore = [NewProject(c.urls, c.maxPages) EXCEPT
                                        !.delay = c.delay,
                                        !.downloadAssets = c.downloadAssets]
                 /\ diskProjects = <<projectsStore>>
            \/ /\ projectsStore = NoProject       \* no projects.json yet
               /\ diskProjects = << >>
       ELSE /\ projectsStore = NoProject
            /\ diskProjects = startupFile
    /\ reportJson = 0
    /\ nruns = 0
    /\ edits = 0
    /\ runs = [r \in RunIds |-> NoRun]
    /\ lastEvent = NoEvent
    /\ assetUrls \in IF mode = "assets" THEN AssetLists ELSE {<< >>}
    /\ options \in IF mode = "assets" THEN AssetOptions ELSE {Absent}
    /\ apc = "start"
    /\ batchStart = 0
    /\ downloads = [k \in 1..Len(assetUrls) |-> NoDownload]
    /\ results = << >>
    /\ completed = 0
    /\ progressCalls = << >>
    /\ destDir \in IF mode = "assets"
                   THEN {{}, {[name |-> <<"a.png", 0>>, by |-> 0, size |-> 1]}}
                   ELSE {{}}
    /\ techPages \in IF mode = "tech" THEN TechPageLists ELSE {<< >>}
    /\ technologies = NoTechnologies
    /\ normArg \in IF mode = "normalize" THEN NormArgs ELSE {Absent}
    /\ normResult = NoNormResult
    /\ sanArg \in IF mode = "sanitize" THEN Filenames ELSE {Absent}
    /\ sanResult = NoFilename
    /\ cliArgs \in IF mode = "cli" THEN ArgLists ELSE {<< >>}
    /\ cliResult = NoResult_Cli
    /\ cloneConfig \in IF mode = "clone" THEN CloneConfigs ELSE {Absent}
    /\ kpc = "start"
    /\ clonedAssets = << >>
    /\ cloneResult = IF mode = "clone" THEN NoCloneResult ELSE Absent
    /\ patterns \in IF mode = "detect" THEN PatternLists ELSE {<< >>}
    /\ dpc = "patterns"
    /\ patternIndex = 0
    /\ isDetected = FALSE
    /\ detConfidence = "low"
    /\ detected = << >>

Next ==
    \/ CrawlStart \/ CrawlLoop \/ CrawlPage \/ CrawlFinish
    \/ RunRequest \/ CreateProject \/ UpdateProject \/ DeleteProject
    \/ \E r \in RunIds : RunLaunch(r)
    \/ \E r \in RunIds : RunCapture(r)
    \/ \E r \in RunIds : RunRecord(r)
    \/ \E r \in RunIds : RunClose(r)
    \/ \E r \in RunIds : RunCatchClose(r)
    \/ LoadProjects
    \/ DownloadAssetsCall \/ DownloadAssetsResume
    \/ \E k \in 1..Len(assetUrls) : DownloadResponse(k)
    \/ \E k \in 1..Len(assetUrls) : DownloadData(k)
    \/ \E k \in 1..Len(assetUrls) : DownloadEnd(k)
    \/ AggregateTechnologies
    \/ NormalizeUrl
    \/ SanitizeFilename
    \/ ParseArgs
    \/ CloneStart \/ ExtractCssFiles \/ ExtractJsFiles \/ ExtractImages
    \/ SaveHtml \/ CloneFinish
    \/ DetectPattern \/ DetectPush

Spec == Init /\ [][Next]_vars

----------------------------------------------------------------------------
(* Fairness: the event loop resumes every continuation whose await has settled *)

RunSteps(r) ==
    \/ RunLaunch(r) \/ RunCapture(r) \/ RunRecord(r)
    \/ RunClose(r) \/ RunCatchClose(r)

\* the behaviours with at most LiveRuns invocations of runProject
FairNext == Next /\ nruns' <= LiveRuns

\* the steps of downloadAssets and of its downloadAsset calls: responses, data
\* and end events arrive, or the request times out or fails
DownloadSteps ==
    \/ DownloadAssetsCall \/ DownloadAssetsResume
    \/ \E k \in 1..Len(assetUrls) :
          DownloadResponse(k) \/ DownloadData(k) \/ DownloadEnd(k)

FairSpec ==
    /\ Init /\ [][FairNext]_vars
    /\ WF_vars(CrawlStep)
    /\ \A r \in RunIds : WF_vars(RunSteps(r))
    /\ WF_vars(DownloadSteps)

----------------------------------------------------------------------------
(* Properties *)

NoDuplicateUrl(ps, normalize(_)) ==
    \A i, j \in 1..Len(ps) : i # j => normalize(ps[i].url) # normalize(ps[j].url)

\* positions of runProject inside the while loop of a seed
LoopPcs == {"nav", "extract"}

\* positions from which a runProject invocation still writes status or progress
ActivePcs == {"launch", "nav", "extract", "closing"}

Active(r) == runs[r].pc \in ActivePcs

Settled(r) == runs[r].pc \in {"resolved_report", "resolved_none", "rejected"}

\* C1: no page list holds two records whose URLs normalize to the same string,
\* in SiteCrawler.crawl and in runProject across all seeds of the run
C1_UrlRecordedOnce ==
    /\ NoDuplicateUrl(pages, normalizeUrl)
    /\ \A r \in RunIds : NoDuplicateUrl(runs[r].allPages, PM_normalizeUrl)

\* a project run over the seeds /b and /c has left its loops with one record
\* for each, although /c is a seed and is linked from /b twice (/c and /c/)
C1_Witness ==
    \E r \in RunIds :
        /\ runs[r].pc = "closing"
        /\ runs[r].project.urls = <<X_b, X_c>>
        /\ runs[r].project.maxPages = 0
        /\ Len(runs[r].allPages) = 2

C3_PageLimit ==
    /\ (mode = "scrape" /\ config.maxPages > 0) =>
         /\ Len(pages) <= config.maxPages
         /\ crawlReport.totalPages <= config.maxPages
    /\ \A r \in RunIds :
         (runs[r].project # Absent /\ runs[r].project.maxPages > 0) =>
             /\ runs[r].pageCount <= runs[r].project.maxPages
             /\ Len(runs[r].allPages)
                  <= runs[r].project.maxPages
                       * IF runs[r].pc \in LoopPcs THEN runs[r].processedUrls + 1
                         ELSE runs[r].processedUrls

\* a crawl limited to two pages has ended with two records and links left over
C3_Witness ==
    /\ cpc = "done"
    /\ config.maxPages = 2
    /\ crawlReport.totalPages = 2
    /\ urlsToVisit # << >>

\* C4: whatever the outcome of processing a URL, the crawl goes back to its
\* loop: a step of a run that processes a page goes on with the page, with
\* the next URL of the frontier or, when the loops are over, to the report,
\* and does not change the status of the run's project
C4_PageErrorContained ==
    [][ /\ cpc = "page" => cpc' = "loop"
        /\ \A r \in RunIds :
             (runs[r].pc \in LoopPcs /\ runs'[r] # runs[r]) =>
                 /\ runs'[r].pc \in LoopPcs \cup {"closing"}
                 /\ runs'[r].project.status = "running"
      ]_vars

\* a project run has left its loops with records collected although the
\* processing of some URL failed, and its project is still running
C4_Witness ==
    \E r \in RunIds :
        /\ runs[r].pc = "closing"
        /\ Cardinality(runs[r].visitedUrls) > Len(runs[r].allPages)
        /\ Len(runs[r].allPages) > 0
        /\ runs[r].project.status = "running"

\* C5: once the loops are left, every URL that was processed has a record in
\* the page list: a page whose processing failed has a degraded record
C5_DegradedRecorded ==
    /\ cpc \in {"closing", "done"} =>
         \A n \in visitedUrls : \E i \in 1..Len(pages) : normalizeUrl(pages[i].url) = n
    /\ \A r \in RunIds :
         runs[r].pc = "closing" =>
             \A n \in runs[r].visitedUrls :
                 \E i \in 1..Len(runs[r].allPages) :
                     PM_normalizeUrl(runs[r].allPages[i].url) = n

\* C6: when the promise of a runProject invocation settles, the project is
\* completed (progress 100, report attached, persisted) or failed, not running
C6_RunEndsCompletedOrFailed ==
    [][ \A r \in RunIds :
          (~Settled(r) /\ Settled(r)') =>
              /\ projectsStore'.status \in {"completed", "failed"}
              /\ projectsStore'.status = "completed" =>
                    /\ projectsStore'.progress = 100
                    /\ projectsStore'.lastReport = r
                    /\ diskProjects' = <<projectsStore'>>
      ]_vars

\* C7: the promise of runProject never rejects
C7_NeverRejects == \A r \in RunIds : runs[r].pc # "rejected"

\* C8: a run request for a project whose stored status is running is answered
\* 400 and no step starts an invocation then, and at most one invocation of
\* runProject is writing the project's status and progress
C8_SingleRun ==
    /\ [](projectsStore.status = "running" => RunResponse = 400)
    /\ [][projectsStore.status = "running" => nruns' = nruns]_vars
    /\ [](Cardinality({r \in RunIds : Active(r)}) <= 1)

\* C9: every progress value passed to the progress callback lies in 0..99
\* unless it comes with the completion event, and a step of a run that stores
\* progress 100 in the project is the step that completes the project
C9_ProgressClamp ==
    /\ [](lastEvent.status # "completed" => lastEvent.progress \in 0..99)
    /\ [][ (runs' # runs /\ projectsStore' # projectsStore
                         /\ projectsStore'.progress = 100)
             => /\ projectsStore'.status = "completed"
                /\ lastEvent' = [progress |-> 100, status |-> "completed"]
         ]_vars

ReportPersisted ==
    /\ projectsStore.lastReport # 0
    /\ reportJson = projectsStore.lastReport
    /\ diskProjects # << >>
    /\ diskProjects[1].lastReport = projectsStore.lastReport
    /\ diskProjects[1].progress = 100

\* C10: when progress 100 is passed to the progress callback or stored in the
\* project store, the run's report is in report.json, attached as lastReport
\* and in projects.json
C10_ReportBefore100 ==
    [][ ( \/ (lastEvent' # lastEvent /\ lastEvent'.progress = 100)
          \/ projectsStore'.progress = 100 )
        => ReportPersisted' ]_vars

\* C11: after loadProjects has returned, a project that projects.json held as
\* running is idle with progress 0 in the store and in projects.json, no
\* project is running, and a project held as idle, completed or failed has
\* the status and progress it was persisted with
C11_CrashRecovery ==
    (mode = "load" /\ lpc = "returned" /\ startupFile \notin {<< >>, CorruptFile}) =>
        LET persisted == startupFile[1]
        IN /\ projectsStore.status # "running"
           /\ persisted.status = "running" =>
                 /\ projectsStore.status = "idle" /\ projectsStore.progress = 0
                 /\ diskProjects = <<projectsStore>>
           /\ persisted.status # "running" =>
                 /\ projectsStore.status = persisted.status
                 /\ projectsStore.progress = persisted.progress

\* C12: a step of a run does not undo an updateProject: the revision of the
\* project's configuration in the store, and in a projects.json that the step
\* writes, is not older than the one the store held before the step
C12_UpdateNotLost ==
    [][ (runs' # runs /\ projectsStore # NoProject) =>
            /\ projectsStore'.rev >= projectsStore.rev
            /\ diskProjects' # diskProjects => diskProjects'[1].rev >= projectsStore.rev
      ]_vars

\* C13: in every state that a request can observe, projects.json holds the
\* project map of the store
C13_PersistedImmediately ==
    mode = "ui" =>
        diskProjects = IF projectsStore = NoProject THEN << >> ELSE <<projectsStore>>

\* the downloadAsset calls whose download is in flight: started, with the
\* promise of downloadAsset not yet resolved
InFlight == {k \in 1..Len(assetUrls) : downloads[k].pc \in {"request", "body"}}

\* the batch of the k-th URL
BatchOf(k) == (k - 1) \div Concurrency

\* C14: at most `concurrency` downloads are in flight, and a download of a
\* later batch has started only when every download of the earlier batches
\* has settled
C14_BoundedConcurrency ==
    /\ mode = "assets" => Cardinality(InFlight) <= Concurrency
    /\ \A j, k \in 1..Len(assetUrls) :
         (BatchOf(j) < BatchOf(k) /\ downloads[k].pc # "pending")
            => downloads[j].pc = "settled"

\* with concurrency 2 the third of three URLs is being downloaded, as the
\* second batch, after the two results of the first batch were collected
C14_Witness ==
    /\ mode = "assets"
    /\ options.concurrency = 2
    /\ Len(assetUrls) = 3
    /\ 3 \in InFlight
    /\ Len(results) = 2

\* C15: two downloads of one downloadAssets call that both succeed and whose
\* URLs sanitize to the same base name have different localPath values, and
\* each localPath holds the file its own download wrote
C15_DistinctFiles ==
    \A j, k \in 1..Len(assetUrls) :
        ( /\ j < k
          /\ downloads[j].pc = "settled" /\ downloads[j].result.success
          /\ downloads[k].pc = "settled" /\ downloads[k].result.success
          /\ downloads[j].destPath[1] = downloads[k].destPath[1] )
        => /\ downloads[j].result.localPath # downloads[k].result.localPath
           /\ \E f \in destDir : f.name = downloads[j].result.localPath /\ f.by = j
           /\ \E f \in destDir : f.name = downloads[k].result.localPath /\ f.by = k

\* C16: a download requests its URL and at most one redirect target, and a
\* download whose redirect target answers with a redirect fails
C16_OneRedirectHop ==
    \A k \in 1..Len(assetUrls) :
        LET d == downloads[k]
        IN /\ Len(d.fetched) <= 2
           /\ ( /\ d.pc = "settled" /\ Len(d.fetched) >= 2
                /\ AssetResponse(d.fetched[2]).status \in {301, 302} )
              => ~d.result.success

RECURSIVE SumSeq(_)
SumSeq(q) == IF q = << >> THEN 0 ELSE Head(q) + SumSeq(Tail(q))

\* the download of the k-th URL has met a response that announces or carries
\* more than maxSize bytes
Oversize(k) ==
    LET response == AssetResponse(downloads[k].url)
    IN /\ downloads[k].fetched # << >>
       /\ response.status = 200
       /\ \/ response.contentLength > options.maxSize
          \/ SumSeq(response.chunks) > options.maxSize

\* C17: an oversize download that has settled is a failure and has written
\* no file; every file a download wrote is the whole body of its response
\* and within maxSize; the localPath of a successful result holds such a file
C17_OversizeNeverWritten ==
    /\ \A k \in 1..Len(assetUrls) :
         Oversize(k) =>
             /\ downloads[k].pc = "settled" => ~downloads[k].result.success
             /\ \A f \in destDir : f.by # k
    /\ \A f \in destDir :
         f.by # 0 =>
             /\ f.size <= options.maxSize
             /\ f.size = SumSeq(AssetResponse(downloads[f.by].url).chunks)
    /\ \A k \in 1..Len(assetUrls) :
         (downloads[k].pc = "settled" /\ downloads[k].result.success) =>
             \E f \in destDir : f.name = downloads[k].result.localPath

\* the download of stream.png was aborted after 3 bytes, over the maxSize of 2,
\* with a failure result, while another download of the call wrote its file
C17_Witness ==
    \E k \in 1..Len(assetUrls) :
        /\ assetUrls[k] = Stream_png
        /\ downloads[k].pc = "settled"
        /\ downloads[k].received = 3
        /\ downloads[k].result.error = AssetError("size", 0)
        /\ \E f \in destDir : f.by # 0

\* C18: a settled downloadAsset call has a result for its URL; a failure
\* carries an error, an HTTP error carries the status code of the response, a
\* data URL the dedicated error and no request, an invalid URL no request;
\* a download is attempted once: each request after its first follows the
\* redirect answer of the request before it, none repeats a failed request
C18_FailuresAreResults ==
    \A k \in 1..Len(assetUrls) :
        LET d == downloads[k]
            response == AssetResponse(d.url)
        IN d.pc = "settled" =>
            /\ d.result.url = assetUrls[k]
            /\ d.result.success <=> d.result.error = NoError
            /\ ~d.result.success => d.result.error.kind # ""
            /\ assetUrls[k] = DataUrl =>
                  d.result.error = AssetError("data", 0) /\ d.fetched = << >>
            /\ assetUrls[k] = BadUrl =>
                  ~d.result.success /\ d.fetched = << >>
            /\ (d.fetched # << >> /\ response.status \notin {200, 301, 302}) =>
                  d.result.error \in {AssetError("http", response.status),
                                      AssetError("timeout", 0)}
            /\ d.result.error.kind = "http" => d.result.error.code = response.status
            /\ \A m \in 1..(Len(d.fetched) - 1) :
                  /\ AssetResponse(d.fetched[m]).status \in {301, 302}
                  /\ d.fetched[m + 1] = AssetResponse(d.fetched[m]).location

\* a call has returned with the dedicated failure of a data URL, the failure
\* of a 404 answer and a successful download
C18_Witness ==
    /\ apc = "returned"
    /\ \E k \in 1..Len(results) : results[k].error = AssetError("data", 0)
    /\ \E k \in 1..Len(results) : results[k].error = AssetError("http", 404)
    /\ \E k \in 1..Len(results) : results[k].success

\* C19: results and the onProgress calls follow the input order, one per URL,
\* completed counts 1, 2, ..., total is the number of URLs, and the call
\* returns one result per URL
C19_ResultsInOrder ==
    /\ Len(results) = Len(progressCalls)
    /\ completed = Len(results)
    /\ Len(results) <= Len(assetUrls)
    /\ \A i \in 1..Len(results) :
         /\ results[i].url = assetUrls[i]
         /\ progressCalls[i] = [completed |-> i, total |-> Len(assetUrls),
                                url |-> assetUrls[i]]
    /\ apc = "returned" => Len(results) = Len(assetUrls)

\* a call with concurrency 2 has returned three results, the first two
\* failures and the third a success, after three onProgress calls
C19_Witness ==
    /\ apc = "returned"
    /\ options.concurrency = 2
    /\ Len(progressCalls) = 3
    /\ ~results[1].success /\ ~results[2].success /\ results[3].success

TechsOf(ps) == UNION { {ps[i][j] : j \in 1..Len(ps[i])} : i \in 1..Len(ps) }

\* a technologies list names each technology of the pages once, with
\* confidence high where some page reports it with confidence high
AggregatedOnce(list, ps) ==
    /\ \A i, j \in 1..Len(list) : i # j => list[i].name # list[j].name
    /\ {list[i].name : i \in 1..Len(list)} = {t.name : t \in TechsOf(ps)}
    /\ \A i \in 1..Len(list) :
         (\E t \in TechsOf(ps) : t.name = list[i].name /\ t.confidence = "high")
             => list[i].confidence = "high"

\* C20: both aggregateTechnologies list each technology name once, and with
\* confidence high when a page reports it so, whatever earlier and later
\* pages report
C20_TechnologiesAggregated ==
    technologies.returned =>
        /\ AggregatedOnce(technologies.crawler, techPages)
        /\ AggregatedOnce(technologies.pm, techPages)

\* React is reported low, then high, then medium by three pages and is listed
\* once, with confidence high
C20_Witness ==
    /\ technologies.returned
    /\ techPages = << <<Tech("React", "low")>>, <<Tech("React", "high")>>,
                      <<Tech("React", "medium")>> >>
    /\ technologies.pm = <<Tech("React", "high")>>
    /\ technologies.crawler = <<Tech("React", "high")>>

(***************************************************************************)
(* Merge rule of aggregateTechnologies                                     *)
(***************************************************************************)
RECURSIVE Observations(_)
\* the technologies of the pages in the order the loops visit them
Observations(ps) ==
    IF ps = << >> THEN << >> ELSE Head(ps) \o Observations(Tail(ps))

Rank(confidence) ==
    CASE confidence = "high" -> 3 [] confidence = "medium" -> 2 [] OTHER -> 1

\* the first observation of a name among those of its highest confidence
FirstBest(name, ps) ==
    LET obs == Observations(ps)
        of == { i \in 1..Len(obs) : obs[i].name = name }
        best == { i \in of : \A j \in of : Rank(obs[j].confidence) <= Rank(obs[i].confidence) }
    IN obs[CHOOSE i \in best : \A j \in best : i <= j]

HighestWinsFirstSeen(list, ps) ==
    \A i \in 1..Len(list) : list[i] = FirstBest(list[i].name, ps)

\* C21: the aggregated entry of a technology name is the first-seen
\* observation among those with the highest confidence observed for that name
\* (high > medium > low): highest confidence wins, first-seen otherwise
C21_HighestConfidenceWins ==
    technologies.returned =>
        /\ HighestWinsFirstSeen(technologies.crawler, techPages)
        /\ HighestWinsFirstSeen(technologies.pm, techPages)

(***************************************************************************)
(* normalizeUrl                                                            *)
(***************************************************************************)
Idempotent(rs) == Len(rs) = 2 => rs[2] = rs[1]

\* C22: normalizeUrl returns its own result unchanged, returns the same
\* string for a URL and for that URL followed by "/", returns no fragment,
\* and returns the root URL of a host unchanged
C22_NormalizeIdempotent ==
    /\ Idempotent(normResult.crawler) /\ Idempotent(normResult.pm)
    /\ Idempotent(normResult.slashed)
    /\ Len(normResult.crawler) >= 1 =>
          /\ normResult.slashed[1] = normResult.crawler[1]
          /\ normArg.url.kind = "abs" => normResult.crawler[1].hash = ""
          /\ normArg.url = X_root =>
                normResult.crawler[1] = [X_root EXCEPT !.kind = "norm"]

(***************************************************************************)
(* The links a page adds to the frontier                                   *)
(***************************************************************************)
\* the entries that the enqueue loop appends to queue, given its result
Pushed(queue, result) == { result[i] : i \in (Len(queue) + 1)..Len(result) }

\* the links that runProject pushes for the page it has navigated to
RunDiscovered(run) ==
    Pushed(run.urlsToVisit,
           RunEnqueue(run.urlsToVisit,
                      extractPageData(run.url, BaseUrl(run), TRUE, StatusCode(run.url)),
                      BaseUrl(run), run.visitedUrls))

Extracting == { r \in RunIds : runs[r].pc = "extract" }

\* C23 as stated: every link that runProject enqueues has the hostname of the
\* project's first seed URL, also while a later seed is crawled
C23_FirstSeedHostAnchors ==
    \A r \in Extracting : \A link \in RunDiscovered(runs[r]) :
        ParseURL(link).host = ParseURL(runs[r].project.urls[1]).host

\* C23 amended: every link that runProject enqueues has the hostname of the
\* seed URL that is being crawled when the link is found
C23_CurrentSeedHostAnchors ==
    \A r \in Extracting : \A link \in RunDiscovered(runs[r]) :
        ParseURL(link).host =
            ParseURL(runs[r].project.urls[runs[r].processedUrls + 1]).host

\* the second seed, on another host than the first, is crawled and its page
\* adds links to the frontier
C23_Witness ==
    \E r \in Extracting :
        /\ runs[r].processedUrls = 1
        /\ ParseURL(runs[r].project.urls[1]).host # ParseURL(runs[r].project.urls[2]).host
        /\ RunDiscovered(runs[r]) # {}

\* the links that SiteCrawler.crawlPage pushes for the page it has navigated to
CrawlDiscovered ==
    Pushed(urlsToVisit,
           CrawlEnqueue(urlsToVisit,
                        extractPageData(curUrl, config.baseUrl, TRUE, StatusCode(curUrl))))

\* url has the hostname of base and a path that ends in no skipped extension
Crawlable(url, base) ==
    /\ ParseURL(url) # Invalid
    /\ ParseURL(url).host = ParseURL(base).host
    /\ ~HasSkippedExtension(ParseURL(url))

\* C24: every URL added to the frontier after the seed has the base URL's
\* hostname, a path that ends in no extension of the skip list (in either
\* case) and is not in the visited set when it is added; and every URL
\* navigated to is the seed or such a URL
C24_FrontierFiltered ==
    /\ cpc = "page" =>
          /\ \A link \in CrawlDiscovered :
                /\ Crawlable(link, config.baseUrl)
                /\ normalizeUrl(link) \notin visitedUrls
          /\ curUrl # config.baseUrl => Crawlable(curUrl, config.baseUrl)
    /\ \A r \in RunIds :
          LET run == runs[r]
              seed == run.project.urls[run.processedUrls + 1]
          IN /\ run.pc = "extract" =>
                   \A link \in RunDiscovered(run) :
                       /\ Crawlable(link, seed)
                       /\ PM_normalizeUrl(link) \notin run.visitedUrls
             /\ run.pc \in {"nav", "extract"} /\ run.url # seed => Crawlable(run.url, seed)

\* the crawler is at a page that links to a .png, to a .PNG and to another
\* host, and the page adds links to the frontier
C24_Witness ==
    /\ cpc = "page"
    /\ CrawlDiscovered # {}
    /\ LET links == extractLinks(curUrl, config.baseUrl)
       IN /\ \E i \in 1..Len(links) : links[i].href.path = <<"i.png">>
          /\ \E i \in 1..Len(links) : links[i].href.path = <<"I.PNG">>
          /\ \E i \in 1..Len(links) : links[i].href.host = "y"

\* no two entries of a frontier have the same normalized URL
DistinctFingerprints(queue, normalize(_)) ==
    \A i, j \in 1..Len(queue) : i # j => normalize(queue[i]) # normalize(queue[j])

\* C30: a frontier (SiteCrawler.urlsToVisit, runProject's urlsToVisit) never
\* holds two entries with the same normalized URL: a link whose normalized
\* form is that of a waiting URL is not added
C30_EnqueueIdempotent ==
    /\ DistinctFingerprints(urlsToVisit, normalizeUrl)
    /\ \A r \in RunIds : DistinctFingerprints(runs[r].urlsToVisit, PM_normalizeUrl)

(***************************************************************************)
(* extractLinks                                                            *)
(***************************************************************************)
\* the hostname a link leads to from a page of the base URL's site
TargetHost(href, baseUrl) ==
    IF href.kind = "frag" THEN ParseURL(baseUrl).host ELSE ParseURL(href).host

\* links are the LinkInfos of anchors for baseUrl, as the claim classifies them
Classified(anchors, links, baseUrl) ==
    \A k \in 1..Len(links) :
        /\ links[k].isInternal =>
              TargetHost(links[k].href, baseUrl) = ParseURL(baseUrl).host
        /\ anchors[k].kind \in {"root", "dot", "dotdot", "frag"} => links[k].isInternal
        /\ anchors[k].kind = "abs" =>
              (links[k].isInternal <=> anchors[k].host = ParseURL(baseUrl).host)

\* C27: extractLinks marks no link internal whose target hostname differs
\* from the base URL's; it marks root-relative, "./", "../" and fragment
\* links and absolute links on the base hostname internal, and absolute
\* links to another host external
C27_NoExternalMarkedInternal ==
    /\ \A i \in 1..Len(pages) :
          Classified(Anchors(pages[i].url), pages[i].links, config.baseUrl)
    /\ \A r \in Extracting :
          Classified(Anchors(runs[r].url),
                     extractLinks(runs[r].url, BaseUrl(runs[r])), BaseUrl(runs[r]))

(***************************************************************************)
(* sanitizeFilename                                                        *)
(***************************************************************************)
NameLength(name) == IF name.unnamed THEN UnnamedLength ELSE name.stem + name.ext

\* C28: sanitizeFilename returns a non-empty name of at most 200 characters
\* without query string or fragment, 'unnamed' for an empty name, and a
\* truncated name keeps the extension of the original
C28_SanitizedName ==
    sanResult # NoFilename =>
        /\ NameLength(sanResult) >= 1
        /\ NameLength(sanResult) <= MaxFilenameLength
        /\ ~sanResult.query /\ ~sanResult.hash
        /\ sanArg.stem + sanArg.ext = 0 => sanResult.unnamed
        /\ (sanArg.stem + sanArg.ext > MaxFilenameLength /\ sanArg.stem > 0)
              => sanResult.ext = sanArg.ext

(***************************************************************************)
(* The command line                                                        *)
(***************************************************************************)
\* invocations whose only URL is a valid positional argument
PositionalInvocations ==
    { <<"https://x">>, <<"https://x", "-m", "5">>, <<"-m", "5", "https://x">> }

\* C26: an invocation whose only URL is a valid positional argument makes
\* parseArgs return a scrape configuration whose baseUrl is that argument; it
\* does not exit with code 1
C26_PositionalUrl ==
    (cliResult # NoResult_Cli /\ cliArgs \in PositionalInvocations) =>
        /\ cliResult.status = "returned"
        /\ cliResult.mode = "scrape"
        /\ cliResult.url = X_bare

(***************************************************************************)
(* Validation at the boundary                                              *)
(***************************************************************************)
ValidSeeds(urls) == \A i \in 1..Len(urls) : ParseURL(urls[i]) # Invalid

\* C25: parseArgs returns no configuration whose URL does not parse; no
\* project is stored without a name, without a URL or with a URL that does
\* not parse; and no run's crawl loop is at a URL that does not parse
C25_RejectedAtBoundary ==
    /\ cliResult.mode \in {"scrape", "clone"} => ParseURL(cliResult.url) # Invalid
    /\ projectsStore # NoProject =>
          /\ projectsStore.name # "" /\ projectsStore.urls # << >>
          /\ ValidSeeds(projectsStore.urls)
    /\ \A r \in RunIds :
          runs[r].pc \in {"nav", "extract"} => ParseURL(runs[r].url) # Invalid

(***************************************************************************)
(* cloneSite                                                               *)
(***************************************************************************)
TypesOf(list) == { list[i].type : i \in 1..Len(list) }

\* C29: the result of cloneSite holds no asset of a type whose download flag
\* is false, and its totalAssets and totalSize are the number and the summed
\* size of the assets it lists
C29_DisabledTypesSkipped ==
    kpc = "returned" =>
        /\ ~cloneConfig.downloadCss => "css" \notin TypesOf(cloneResult.assets)
        /\ ~cloneConfig.downloadJs => "js" \notin TypesOf(cloneResult.assets)
        /\ ~cloneConfig.downloadImages => "image" \notin TypesOf(cloneResult.assets)
        /\ cloneResult.totalAssets = Len(cloneResult.assets)
        /\ cloneResult.totalSize =
              SumSeq([i \in 1..Len(cloneResult.assets) |-> cloneResult.assets[i].size])

\* a clone without CSS returns the script, the image and the document
C29_Witness ==
    /\ kpc = "returned"
    /\ ~cloneConfig.downloadCss /\ cloneConfig.downloadJs /\ cloneConfig.downloadImages
    /\ TypesOf(cloneResult.assets) = {"js", "image", "html"}
    /\ cloneResult.totalAssets = 3

(***************************************************************************)
(* Order of the crawl                                                      *)
(***************************************************************************)
IsPrefix(q, r) == Len(q) <= Len(r) /\ SubSeq(r, 1, Len(q)) = q

\* the pages before page j of a page list whose internal links lead to it
Parents(ps, j, normalize(_)) ==
    { i \in 1..(j - 1) :
        \E k \in 1..Len(ps[i].links) :
            /\ ps[i].links[k].isInternal
            /\ ParseURL(ps[i].links[k].href) # Invalid
            /\ normalize(ps[i].links[k].href) = normalize(ps[j].url) }

\* for each page of a page list the first page that links to it, 0 for none
FirstParent(ps, normalize(_)) ==
    [j \in 1..Len(ps) |->
        LET parents == Parents(ps, j, normalize)
        IN IF parents = {} THEN 0
           ELSE CHOOSE i \in parents : \A h \in parents : i <= h]

RECURSIVE DepthOf(_, _)
\* the link depth at which page j was first discovered: 0 for a seed, else
\* one more than the depth of the first page that links to it
DepthOf(parent, j) ==
    IF parent[j] = 0 THEN 0 ELSE DepthOf(parent, parent[j]) + 1

Depths(ps, normalize(_)) ==
    [j \in 1..Len(ps) |-> DepthOf(FirstParent(ps, normalize), j)]

BreadthFirst(ps, normalize(_)) ==
    LET depth == Depths(ps, normalize)
    IN \A i, j \in 1..Len(ps) : i < j => depth[i] <= depth[j]

----------------------------------------------------------------------------
(* The delay between requests and the order of the page pipeline *)

\* the step of invocation r ends an iteration of the while loop of runProject
EndsIteration(r) ==
    /\ runs[r].pc \in LoopPcs
    /\ runs'[r] # runs[r]
    /\ ~(runs[r].pc = "nav" /\ runs'[r].pc = "extract")

\* the step of invocation r has pushed the PageData of its page
Records(r) == Len(runs'[r].allPages) > Len(runs[r].allPages)

\* the frontier of invocation r at the end of the iteration that the step ends
FrontierAfter(r) ==
    LET run == runs[r]
    IN IF Records(r)
       THEN RunEnqueue(run.urlsToVisit,
                       extractPageData(run.url, BaseUrl(run), TRUE, StatusCode(run.url)),
                       BaseUrl(run), run.visitedUrls)
       ELSE run.urlsToVisit

EndsWithDelay(done) == done # << >> /\ done[Len(done)] = "delay"

\* C32: when a URL has been processed, the frontier is not empty and the
\* configured delay is > 0, the delay elapses before the next navigation
\* starts, whether the page succeeded or failed, in SiteCrawler.crawl and in
\* runProject
C32_DelayBeforeNextPage ==
    [][ /\ (cpc = "page" /\ urlsToVisit' # << >> /\ config.delay > 0)
            => EndsWithDelay(pipeline')
        /\ \A r \in RunIds :
             (/\ EndsIteration(r)
              /\ runs'[r].pc = "nav"
              /\ FrontierAfter(r) # << >>
              /\ runs[r].project.delay > 0)
                => EndsWithDelay(runs'[r].pipeline)
      ]_vars

\* in the order of the pipeline: screenshot, download, push, delay
PipelineRank(step) ==
    CASE step = "screenshot" -> 1
      [] step = "download" -> 2
      [] step = "push" -> 3
      [] step = "delay" -> 4

InPipelineOrder(done) ==
    \A i, j \in 1..Len(done) : i < j => PipelineRank(done[i]) < PipelineRank(done[j])

Completed(done, step) == \E i \in 1..Len(done) : done[i] = step

----------------------------------------------------------------------------
(* detectTechnologies *)

\* the confidence that a pattern stands for where the page matches it
Strength(pattern) ==
    CASE pattern.type = "script" /\ pattern.regexp /\ pattern.src -> "high"
      [] pattern.type = "script" /\ pattern.regexp /\ pattern.inline -> "medium"
      [] pattern.type \in {"global", "meta"} /\ pattern.found -> "high"
      [] pattern.type = "element" /\ pattern.found -> "medium"
      [] OTHER -> "none"

Matched == { i \in 1..patternIndex : Strength(patterns[i]) # "none" }

\* C34: the patterns of a technology are evaluated in declared order up to
\* the first one matched with high confidence and no further; the confidence
\* is never lowered by a later pattern; the technology is reported if and
\* only if one of the patterns evaluated matched, with the best confidence
\* among those
C34_SignalEvaluation ==
    /\ \A i \in 1..(patternIndex - 1) : Strength(patterns[i]) # "high"
    /\ isDetected <=> Matched # {}
    /\ isDetected =>
          /\ \E i \in Matched : Strength(patterns[i]) = detConfidence
          /\ \A i \in Matched : Rank(Strength(patterns[i])) <= Rank(detConfidence)
    /\ dpc \in {"push", "returned"} =>
          /\ patternIndex >= 1
          /\ patternIndex < Len(patterns) => Strength(patterns[patternIndex]) = "high"
    /\ dpc = "returned" =>
          detected = IF Matched = {} THEN << >> ELSE <<Tech("React", detConfidence)>>

\* a technology is reported with medium confidence after an element and an
\* inline script matched and a script[src] pattern did not
C34_Witness ==
    /\ dpc = "returned"
    /\ patternIndex = 3
    /\ Cardinality(Matched) = 2
    /\ detected = <<Tech("React", "medium")>>

----------------------------------------------------------------------------
(* Deletion, progress and completion of a project *)

\* deleteProject has returned true and no project has been created since
Deleted == projectsStore = NoProject /\ diskProjects = << >>

\* C35: once deleteProject has returned true, no step of a run of the project
\* puts the project back into the store or into projects.json: a project
\* appears there only by createProject
C35_DeletedStaysDeleted ==
    [][ (Deleted /\ edits' = edits) => Deleted' ]_vars

----------------------------------------------------------------------------
(* Redirects *)

\* the k-th downloadAsset call of the downloadAssets call
DownloadOf(k) == IF k <= Len(assetUrls) THEN downloads[k] ELSE NoDownload

\* C36: every downloadAsset call that has sent a request eventually settles
\* with a result, and downloadAssets eventually returns, also when the
\* server answers with a chain or a cycle of redirects
C36_DownloadsSettle ==
    /\ \A k \in 1..3 :
          (DownloadOf(k).pc \in {"request", "body"}) ~> (DownloadOf(k).pc = "settled")
    /\ (apc = "await") ~> (apc = "returned")



\* C37: in every state of the project store a project shows progress 100 exactly
\* when its status is completed, and a completed project has its lastReport; a
\* failed, running or idle project never shows progress 100
C37_ProgressIffCompleted ==
    (mode = "ui" /\ projectsStore # NoProject) =>
        /\ (projectsStore.progress = 100) <=> (projectsStore.status = "completed")
        /\ (projectsStore.status = "completed") => (projectsStore.lastReport # 0)


----------------------------------------------------------------------------
(* The folders of the pages of a run *)

\* C38: within one run, two page records for different normalized URLs never
\* share a page folder, so that the screenshot.png and data.json of one page are
\* not overwritten by another page of the run
C38_DistinctArtifacts ==
    \A r \in RunIds : \A i, j \in 1..Len(runs[r].allPages) :
        LET a == runs[r].allPages[i].url
            b == runs[r].allPages[j].url
        IN PM_normalizeUrl(a) # PM_normalizeUrl(b)
               => getPageFolderName(a) # getPageFolderName(b)


----------------------------------------------------------------------------
(* Completeness of a crawl *)

\* the links of the page at url that are flagged internal and pass the filter
Followed(url, baseUrl) ==
    LET links == extractLinks(url, baseUrl)
    IN { links[n].href : n \in { m \in 1..Len(links) :
                                    /\ links[m].isInternal
                                    /\ Crawlable(links[m].href, baseUrl) } }

\* the URLs reachable from the URLs of a set through such links
RECURSIVE ReachableFrom(_, _)
ReachableFrom(found, baseUrl) ==
    LET next == found \cup UNION { Followed(u, baseUrl) : u \in found }
    IN IF next = found THEN found ELSE ReachableFrom(next, baseUrl)

\* the seeds of the crawls and of the projects explored
Seeds ==
    CrawlSeeds \cup UNION { { c.urls[k] : k \in 1..Len(c.urls) } : c \in ProjectConfigs }
               \cup UNION { { b.urls[k] : k \in 1..Len(b.urls) } : b \in CreateBodies }

\* for each seed, the normalized URLs of the pages reachable from it
Reachable ==
    [seed \in Seeds |-> { normalizeUrl(u) : u \in ReachableFrom({seed}, seed) }]

\* the number of records of a page list for a normalized URL
RecordsFor(pageList, normalizedUrl) ==
    Cardinality({ i \in 1..Len(pageList) : normalizeUrl(pageList[i].url) = normalizedUrl })

\* no page of the crawl has failed: no degraded record
NoCrawlFailure == \A i \in 1..Len(pages) : pages[i] # DegradedPage(pages[i].url)

\* no page of the run has failed: every visited URL but the one being
\* processed has its record
NoRunFailure(run) ==
    \A v \in run.visitedUrls :
        \/ run.pc \in {"nav", "extract"} /\ v = PM_normalizeUrl(run.url)
        \/ RecordsFor(run.allPages, v) >= 1

\* C39: with maxPages = 0 and no page failure, when the crawl of a seed has
\* ended, every page reachable from the seed through links that are flagged
\* internal and pass the crawl filter has exactly one record
C39_CrawlComplete ==
    /\ (mode = "scrape" /\ cpc \in {"closing", "done"} /\ config.maxPages = 0
            /\ NoCrawlFailure) =>
           \A n \in Reachable[config.baseUrl] : RecordsFor(pages, n) = 1
    /\ \A r \in RunIds :
          LET run == runs[r]
          IN (run.pc \in {"nav", "extract", "closing"} /\ run.project.maxPages = 0
                 /\ NoRunFailure(run)) =>
                \A k \in 1..run.processedUrls :
                    \A n \in Reachable[run.project.urls[k]] :
                        RecordsFor(run.allPages, n) = 1

\* a crawl from the root with maxPages = 0 has ended without a failure and its
\* report lists the four pages of the site
C39_Witness ==
    /\ mode = "scrape" /\ cpc = "done" /\ config.maxPages = 0
    /\ config.baseUrl = X_root
    /\ NoCrawlFailure
    /\ crawlReport.totalPages = 4


----------------------------------------------------------------------------
(* The progress of a run *)

\* invocation r holds its Project object: from its start to its catch block
\* or its completion
Holds(r) == runs[r].project # Absent

\* the progress values that a step of invocation r stores or passes to the hook
Progressed(r, before) ==
    /\ Holds(r)' => runs'[r].project.progress >= before
    /\ (projectsStore' # projectsStore /\ projectsStore' # NoProject)
           => projectsStore'.progress >= before
    /\ lastEvent' # lastEvent => lastEvent'.progress >= before

\* C40: within one run of runProject the progress values stored in the project
\* and passed to the progress hook never decrease, from the initial 0 through
\* the updates of the pages and the switch to the next seed up to the last value
C40_ProgressNonDecreasing ==
    [][ \A r \in RunIds :
            (Holds(r) /\ runs'[r] # runs[r]) => Progressed(r, runs[r].project.progress) ]_vars

\* a run over two seeds has stored 50 for the page of its first seed and 99 for
\* the page of its second seed
C40_Witness ==
    \E r \in RunIds :
        /\ runs[r].pc = "closing"
        /\ Len(runs[r].project.urls) = 2
        /\ Len(runs[r].allPages) = 2
        /\ runs[r].project.progress = 99

====
